---- MODULE Spec2Model ----
(***************************************************************************)
(* The track-to-bin correlation engine of hypothesis/hypo.py: class track  *)
(* (a line segment in spacetime with a recenterable origin) and class hypo *)
(* (the three bin correlators and get_z_matrix).                           *)
(*                                                                         *)
(* Numbers.  The code computes in float64.  The model computes exactly:    *)
(*   - lengths (m) and times (ns) are integers, with the IEEE specials     *)
(*     Inf, NInf (-inf) and NaN; c = 0.1 m/ns is the rational 1 / c_den;   *)
(*   - a radius is held as its square (cr returns x^2 + y^2 + z^2 and      *)
(*     get_A reads the held value where the code writes R**2); the order   *)
(*     of radii is the order of their squares;                             *)
(*   - a polar angle T is held as [n, m] with cos(T) = sgn(n) *            *)
(*     sqrt(|n| / m) (m = 0: NaN), so tan(T)^2 = (m - |n|) / |n| and the   *)
(*     order of angles is the reverse order of n / m;                      *)
(*   - an azimuth is held as [x, y, w]: the direction (x, y) of the plane, *)
(*     w = 1 for the value 2 pi (the same direction as 0 but above every   *)
(*     other azimuth), so sin : cos = y : x.                               *)
(* Directions are the axis directions, where sines and cosines are 0, 1    *)
(* or -1, and the inputs are chosen so that every root and quotient the    *)
(* code takes is an integer: the operators Sqrt and Quot have no value     *)
(* otherwise.                                                              *)
(***************************************************************************)
EXTENDS Integers, Sequences, FiniteSets, TLC

\* ------------------------------------------------------------------ floats

Inf == 1000000
NInf == 0 - Inf
NaN == Inf + Inf

Abs(a) == IF a < 0 THEN 0 - a ELSE a
Sign(a) == IF a < 0 THEN 0 - 1 ELSE IF a > 0 THEN 1 ELSE 0

IsNaN(a) == a = NaN
IsFinite(a) == a > NInf /\ a < Inf

\* comparisons of floats: every comparison with NaN is False
FLt(a, b) == ~IsNaN(a) /\ ~IsNaN(b) /\ a < b
FLe(a, b) == ~IsNaN(a) /\ ~IsNaN(b) /\ a <= b
FGt(a, b) == FLt(b, a)
FGe(a, b) == FLe(b, a)

FNeg(a) == IF IsNaN(a) THEN NaN ELSE 0 - a

FAdd(a, b) ==
    IF IsNaN(a) \/ IsNaN(b) THEN NaN
    ELSE IF a = Inf THEN (IF b = NInf THEN NaN ELSE Inf)
    ELSE IF a = NInf THEN (IF b = Inf THEN NaN ELSE NInf)
    ELSE IF b = Inf \/ b = NInf THEN b
    ELSE a + b

FSub(a, b) == FAdd(a, FNeg(b))

\* the exact quotient n / d of two integers, d # 0
Quot(n, d) == CHOOSE q \in {Sign(n) * Sign(d) * (Abs(n) \div Abs(d))} : q * d = n

\* float division n / d: x / 0 is an infinity and 0 / 0 is NaN
FDiv(n, d) ==
    IF d = 0 THEN (IF n = 0 THEN NaN ELSE IF n > 0 THEN Inf ELSE NInf)
    ELSE Quot(n, d)

\* time + rho / c for a float rho
FScaleAdd(t, rho, k) ==
    IF IsFinite(rho) THEN t + rho * k ELSE rho

RECURSIVE SqrtFrom(_, _)
SqrtFrom(n, r) == IF (r + 1) * (r + 1) > n THEN r ELSE SqrtFrom(n, r + 1)

\* np.sqrt of a perfect square
Sqrt(n) == CHOOSE r \in {SqrtFrom(n, 0)} : r * r = n

\* Python's built-in max and min of three floats, and sorted of a pair
PyMax3(a, b, c) ==
    LET m1 == IF FGt(b, a) THEN b ELSE a
    IN  IF FGt(c, m1) THEN c ELSE m1

PyMin3(a, b, c) ==
    LET m1 == IF FLt(b, a) THEN b ELSE a
    IN  IF FLt(c, m1) THEN c ELSE m1

Sorted2(a, b) == IF FLt(b, a) THEN <<b, a>> ELSE <<a, b>>

Max2(a, b) == IF b > a THEN b ELSE a
Min2(a, b) == IF b < a THEN b ELSE a

\* ------------------------------------------------------------------ angles

\* polar angles
Theta(n, m) == [n |-> n, m |-> m]
ThetaNaN == Theta(0, 0)
ThetaHalfPi == Theta(0, 1)
IsThetaNaN(T) == T.m = 0
\* T1 < T2, T1 <= T2, T1 = T2 as floats
ThLt(T1, T2) == ~IsThetaNaN(T1) /\ ~IsThetaNaN(T2) /\ T1.n * T2.m > T2.n * T1.m
ThLe(T1, T2) == ~IsThetaNaN(T1) /\ ~IsThetaNaN(T2) /\ T1.n * T2.m >= T2.n * T1.m
ThEq(T1, T2) == ~IsThetaNaN(T1) /\ ~IsThetaNaN(T2) /\ T1.n * T2.m = T2.n * T1.m
ThMax(T1, T2) == IF ThLt(T1, T2) THEN T2 ELSE T1
ThMin(T1, T2) == IF ThLt(T2, T1) THEN T2 ELSE T1
\* tan(T)^2 = TanP(T) / TanQ(T)
TanP(T) == T.m - Abs(T.n)
TanQ(T) == Abs(T.n)

\* azimuths
Phi(x, y, w) == [x |-> x, y |-> y, w |-> w]
PhiZero == Phi(1, 0, 0)
PhiTwoPi == Phi(1, 0, 1)
\* 0 for the upper half turn [0, pi), 1 for the lower [pi, 2 pi)
PhiHalf(a) == IF a.y > 0 \/ (a.y = 0 /\ a.x > 0) THEN 0 ELSE 1
PhiCross(a, b) == a.x * b.y - a.y * b.x
PhLt(a, b) ==
    \/ a.w < b.w
    \/ a.w = b.w /\ PhiHalf(a) < PhiHalf(b)
    \/ a.w = b.w /\ PhiHalf(a) = PhiHalf(b) /\ PhiCross(a, b) > 0
PhLe(a, b) == ~PhLt(b, a)
PhEq(a, b) == ~PhLt(a, b) /\ ~PhLt(b, a)
PhMax(a, b) == IF PhLt(a, b) THEN b ELSE a
PhMin(a, b) == IF PhLt(b, a) THEN b ELSE a

\* np.sin and np.cos of a direction angle of the track (an axis direction)
SinPhi(a) == Sign(a.y)
CosPhi(a) == Sign(a.x)
CosTheta(T) == Sign(T.n)
SinTheta(T) == IF T.n = 0 THEN 1 ELSE 0

\* ------------------------------------------------------------------ track

\* speed of light: c = 0.1 = 1 / c_den
c_den == 10

\* c * t
TimesC(t) == Quot(t, c_den)

\* track.__init__ followed by its set_origin(0, 0, 0, 0)
track_init(t_v, x_v, y_v, z_v, phi, theta, length) ==
    [t_v |-> t_v, x_v |-> x_v, y_v |-> y_v, z_v |-> z_v,
     phi |-> phi, theta |-> theta, length |-> length,
     dt |-> length * c_den,
     sinphi |-> SinPhi(phi), cosphi |-> CosPhi(phi),
     sintheta |-> SinTheta(theta), costheta |-> CosTheta(theta),
     t_o |-> 0, x_o |-> 0, y_o |-> 0, z_o |-> 0]

\* a set_origin that also moves the vertex to the new origin
set_origin_moving_vertex(self, t, x, y, z) ==
    [self EXCEPT !.t_o = t, !.x_o = x, !.y_o = y, !.z_o = z,
                 !.t_v = self.t_v - t, !.x_v = self.x_v - x,
                 !.y_v = self.y_v - y, !.z_v = self.z_v - z]

\* a set_origin that displaces the origin attached before
set_origin_displacing(self, t, x, y, z) ==
    [self EXCEPT !.t_o = self.t_o + t, !.x_o = self.x_o + x,
                 !.y_o = self.y_o + y, !.z_o = self.z_o + z]

set_origin(self, t, x, y, z) ==
    [self EXCEPT !.t_o = t, !.x_o = x, !.y_o = y, !.z_o = z]

t0(self) == self.t_v - self.t_o
x0(self) == self.x_v - self.x_o
y0(self) == self.y_v - self.y_o
z0(self) == self.z_v - self.z_o

\* the assertion of point
\* an assertion that rejects the two endpoints
point_ok_open(self, t) == FLt(t0(self), t) /\ FLt(t, t0(self) + self.dt)

point_ok(self, t) == FLe(t0(self), t) /\ FLe(t, t0(self) + self.dt)

point(self, t) ==
    LET dt == t - t0(self)
        dr == TimesC(dt)
    IN  <<x0(self) + dr * self.sintheta * self.cosphi,
          y0(self) + dr * self.sintheta * self.sinphi,
          z0(self) + dr * self.costheta>>

None == <<>>

\* an extent that is None for a window that only touches the time range
extent_open(self, t_low, t_high) ==
    IF t0(self) + self.dt > t_low /\ t_high > t0(self)
    THEN <<Max2(t_low, t0(self)), Min2(t_high, t0(self) + self.dt)>>
    ELSE None

\* an extent that returns the window as given, not clipped to the time range
extent_unclipped(self, t_low, t_high) ==
    IF t0(self) + self.dt >= t_low /\ t_high >= t0(self)
    THEN <<t_low, t_high>>
    ELSE None

extent(self, t_low, t_high) ==
    IF t0(self) + self.dt >= t_low /\ t_high >= t0(self)
    THEN <<Max2(t_low, t0(self)), Min2(t_high, t0(self) + self.dt)>>
    ELSE None

\* x0 sin(theta) cos(phi) + y0 sin(theta) sin(phi) + z0 cos(theta)
Proj(self) ==
    x0(self) * self.sintheta * self.cosphi
    + y0(self) * self.sintheta * self.sinphi
    + z0(self) * self.costheta

tb(self) == t0(self) - Proj(self) * c_den

\* np.cos(np.pi / 2) is 6.1e-17, not 0: TinyCos(theta) is cos(theta) in units
\* of that value where CosTheta(theta) = 0
TinyCos(T) == IF T.n = 0 /\ T.m # 0 THEN 1 ELSE 0

\* numerator and denominator of rho in ts
ts_num(self) ==
    0 - self.costheta * (x0(self) * x0(self) + y0(self) * y0(self))
    + self.sintheta * z0(self) * (x0(self) * self.cosphi + y0(self) * self.sinphi)

ts_den(self) ==
    self.sintheta * self.costheta * (x0(self) * self.cosphi + y0(self) * self.sinphi)
    - z0(self) * self.sintheta * self.sintheta

\* a quotient whose numerator and denominator both reduce to their
\* cos(pi / 2) terms is the quotient of those terms
ts(self) ==
    LET tiny == TinyCos(self.theta)
        rho == IF ts_num(self) = 0 /\ ts_den(self) = 0 /\ tiny # 0
               THEN FDiv(0 - tiny * (x0(self) * x0(self) + y0(self) * y0(self)),
                         self.sintheta * tiny
                         * (x0(self) * self.cosphi + y0(self) * self.sinphi))
               ELSE FDiv(ts_num(self), ts_den(self))
    IN  FScaleAdd(t0(self), rho, c_den)

rho_of_phi(self, phi) ==
    FDiv(phi.y * x0(self) - phi.x * y0(self),
         phi.x * self.sinphi * self.sintheta - phi.y * self.cosphi * self.sintheta)

\* the two parts of S in get_M: S = MPartA + tan(T)^2 * MPartW
MPartA(self) ==
    0 - x0(self) * x0(self) * self.sintheta * self.sintheta * self.sinphi * self.sinphi
    - y0(self) * y0(self) * self.cosphi * self.cosphi * self.sintheta * self.sintheta
    + 2 * x0(self) * y0(self) * self.sinphi * self.sintheta * self.sintheta * self.cosphi

MPartW(self) ==
    (x0(self) * x0(self) + y0(self) * y0(self)) * self.costheta * self.costheta
    + z0(self) * z0(self) * self.sintheta * self.sintheta
    - 2 * z0(self) * self.sintheta * self.costheta
        * (x0(self) * self.cosphi + y0(self) * self.sinphi)

\* TanQ(T) * M of get_M: with tan(T)^2 = p / q, S = (A q + p W) / q
get_M(self, T) ==
    LET S == MPartA(self) * TanQ(T) + TanP(T) * MPartW(self)
    IN  IF S < 0 THEN 0 ELSE Sqrt(S * TanQ(T))

\* rho_of_theta_neg (sgn = 1) and rho_of_theta_pos (sgn = -1), numerator and
\* denominator both multiplied by TanQ(T)
rho_of_theta(self, T, sgn) ==
    LET M == get_M(self, T)
        d == TanP(T) * self.costheta * self.costheta
             - TanQ(T) * self.sintheta * self.sintheta
    IN  IF IsThetaNaN(T) THEN NaN
        ELSE IF d = 0 THEN Inf
        ELSE FDiv(TanQ(T) * (x0(self) * self.sintheta * self.cosphi
                             + y0(self) * self.sinphi * self.sintheta)
                  - z0(self) * self.costheta * TanP(T)
                  + sgn * M,
                  d)

rho_of_theta_neg(self, T) == rho_of_theta(self, T, 1)
rho_of_theta_pos(self, T) == rho_of_theta(self, T, 0 - 1)

\* a helper without the clamp: np.sqrt of a negative number is nan
get_A_unclamped(self, R) ==
    LET st2 == self.sintheta * self.sintheta
        S == R
             + x0(self) * x0(self) * (self.cosphi * self.cosphi * st2 - 1)
             + y0(self) * y0(self) * (self.sinphi * self.sinphi * st2 - 1)
             + z0(self) * z0(self) * (self.costheta * self.costheta - 1)
             + 2 * x0(self) * y0(self) * self.sinphi * st2 * self.cosphi
             + 2 * x0(self) * z0(self) * self.cosphi * self.sintheta * self.costheta
             + 2 * y0(self) * z0(self) * self.sinphi * self.sintheta * self.costheta
    IN  IF S < 0 THEN NaN ELSE Sqrt(S)

\* R is held as its square
get_A(self, R) ==
    LET st2 == self.sintheta * self.sintheta
        S == R
             + x0(self) * x0(self) * (self.cosphi * self.cosphi * st2 - 1)
             + y0(self) * y0(self) * (self.sinphi * self.sinphi * st2 - 1)
             + z0(self) * z0(self) * (self.costheta * self.costheta - 1)
             + 2 * x0(self) * y0(self) * self.sinphi * st2 * self.cosphi
             + 2 * x0(self) * z0(self) * self.cosphi * self.sintheta * self.costheta
             + 2 * y0(self) * z0(self) * self.sinphi * self.sintheta * self.costheta
    IN  IF S < 0 THEN 0 ELSE Sqrt(S)

rho_of_r_pos(self, R) == get_A(self, R) - Proj(self)
rho_of_r_neg(self, R) == 0 - get_A(self, R) - Proj(self)

\* ------------------------------------------------------------------ hypo

\* coordinate transforms
cr(p) == p[1] * p[1] + p[2] * p[2] + p[3] * p[3]

cphi(p) ==
    IF p[1] = 0 /\ p[2] = 0 THEN PhiZero ELSE Phi(p[1], p[2], 0)

ctheta(p) == Theta(Sign(p[3]) * p[3] * p[3], cr(p))

\* bin correlators, one bin b = (b0, b1) at a time

\* a correlator that decides the root by the clipped value, not by the bin's
\* lower edge
correlate_theta_bin_by_value(self, b0, b1, t, rho_extent) ==
    IF t = None THEN None
    ELSE IF ThEq(t[1], t[2]) /\ ThLe(b0, t[1]) /\ ThLe(t[1], b1)
    THEN rho_extent
    ELSE IF ThLe(b0, t[2]) /\ ThLt(t[1], b1) /\ ThLt(t[1], t[2])
    THEN LET val_high == ThMin(b1, t[2])
             val_low == ThMax(b0, t[1])
         IN  Sorted2(IF ThLt(val_low, ThetaHalfPi) THEN rho_of_theta_pos(self, val_low)
                     ELSE rho_of_theta_neg(self, val_low),
                     IF ThLt(val_high, ThetaHalfPi) THEN rho_of_theta_pos(self, val_high)
                     ELSE rho_of_theta_neg(self, val_high))
    ELSE IF ThLe(b0, t[1]) /\ ThLt(t[2], b1) /\ ThLt(t[2], t[1])
    THEN LET val_high == ThMin(b1, t[1])
             val_low == ThMax(b0, t[2])
         IN  Sorted2(IF ThLt(val_low, ThetaHalfPi) THEN rho_of_theta_neg(self, val_low)
                     ELSE rho_of_theta_pos(self, val_low),
                     IF ThLt(val_high, ThetaHalfPi) THEN rho_of_theta_neg(self, val_high)
                     ELSE rho_of_theta_pos(self, val_high))
    ELSE None

correlate_theta_bin(self, b0, b1, t, rho_extent) ==
    IF t = None THEN None
    ELSE IF ThEq(t[1], t[2]) /\ ThLe(b0, t[1]) /\ ThLe(t[1], b1)
    THEN rho_extent
    ELSE IF ThLe(b0, t[2]) /\ ThLt(t[1], b1) /\ ThLt(t[1], t[2])
    THEN LET val_high == ThMin(b1, t[2])
             val_low == ThMax(b0, t[1])
         IN  IF ThLt(b0, ThetaHalfPi)
             THEN Sorted2(rho_of_theta_pos(self, val_low),
                          rho_of_theta_pos(self, val_high))
             ELSE Sorted2(rho_of_theta_neg(self, val_low),
                          rho_of_theta_neg(self, val_high))
    ELSE IF ThLe(b0, t[1]) /\ ThLt(t[2], b1) /\ ThLt(t[2], t[1])
    THEN LET val_high == ThMin(b1, t[1])
             val_low == ThMax(b0, t[2])
         IN  IF ThLt(b0, ThetaHalfPi)
             THEN Sorted2(rho_of_theta_neg(self, val_low),
                          rho_of_theta_neg(self, val_high))
             ELSE Sorted2(rho_of_theta_pos(self, val_low),
                          rho_of_theta_pos(self, val_high))
    ELSE None

correlate_theta(self, bin_edges, t, rho_extent) ==
    [i \in 1..(Len(bin_edges) - 1) |->
        correlate_theta_bin(self, bin_edges[i], bin_edges[i + 1], t, rho_extent)]

correlate_phi_bin(self, b0, b1, t, rho_extent) ==
    IF PhEq(t[1], t[2]) /\ PhLe(b0, t[1]) /\ PhLt(t[1], b1)
    THEN rho_extent
    ELSE IF PhLe(t[1], t[2]) /\ PhLe(b0, t[2]) /\ PhLt(t[1], b1)
    THEN Sorted2(rho_of_phi(self, PhMax(b0, t[1])),
                 rho_of_phi(self, PhMin(b1, t[2])))
    ELSE IF PhLt(t[2], t[1])
    THEN IF PhLe(PhiZero, b1) /\ PhLe(b0, t[2])
         THEN Sorted2(rho_of_phi(self, PhMax(b0, PhiZero)),
                      rho_of_phi(self, PhMin(b1, t[2])))
         ELSE IF PhLt(b0, PhiTwoPi) /\ PhLe(t[1], b1)
         THEN Sorted2(rho_of_phi(self, PhMax(b0, t[1])),
                      rho_of_phi(self, PhMin(b1, PhiTwoPi)))
         ELSE IF PhLe(b0, t[2]) /\ PhLe(t[1], t[2])
         THEN Sorted2(rho_of_phi(self, PhMax(b0, t[1])),
                      rho_of_phi(self, PhMin(b1, t[2])))
         ELSE None
    ELSE None

correlate_phi(self, bin_edges, t, rho_extent) ==
    [i \in 1..(Len(bin_edges) - 1) |->
        correlate_phi_bin(self, bin_edges[i], bin_edges[i + 1], t, rho_extent)]

\* a correlator with the two roots exchanged
correlate_r_bin_swapped(self, b0, b1, t, pos) ==
    IF b0 <= t[2] /\ t[1] < b1
    THEN LET val_high == Min2(b1, t[2])
             val_low == Max2(b0, t[1])
         IN  IF (val_low > val_high /\ ~pos) \/ (val_low <= val_high /\ pos)
             THEN Sorted2(rho_of_r_pos(self, val_low), rho_of_r_pos(self, val_high))
             ELSE Sorted2(rho_of_r_neg(self, val_low), rho_of_r_neg(self, val_high))
    ELSE None

correlate_r_bin(self, b0, b1, t, pos) ==
    IF b0 <= t[2] /\ t[1] < b1
    THEN LET val_high == Min2(b1, t[2])
             val_low == Max2(b0, t[1])
         IN  IF (val_low > val_high /\ ~pos) \/ (val_low <= val_high /\ pos)
             THEN Sorted2(rho_of_r_neg(self, val_low), rho_of_r_neg(self, val_high))
             ELSE Sorted2(rho_of_r_pos(self, val_low), rho_of_r_pos(self, val_high))
    ELSE None

correlate_r(self, bin_edges, t, pos) ==
    [i \in 1..(Len(bin_edges) - 1) |->
        correlate_r_bin(self, bin_edges[i], bin_edges[i + 1], t, pos)]

\* get_z_matrix, lines 304-314: an inflection value is bound only when the
\* inflection time lies strictly inside the track's time range.  A local is
\* <<>> while unbound and <<v>> once assigned.
Unbound == <<>>

\* a test without the upper end of the time range
Inside_after(self, t) == FGt(t, t0(self))

Inside(self, t) == FGt(t, t0(self)) /\ FLt(t, t0(self) + self.dt)

r_inflection(self, t_b) ==
    IF Inside(self, t_b) THEN <<cr(point(self, t_b))>> ELSE Unbound

theta_inflection(self, t_s) ==
    IF Inside(self, t_s) THEN <<ctheta(point(self, t_s))>> ELSE Unbound

\* targets without the placeholder: the branch that does not carry the
\* window gets the window's radii too
track_r_extents_doubled(self, lv, t_extent) ==
    LET e0 == cr(point(self, t_extent[1]))
        e1 == cr(point(self, t_extent[2]))
    IN  IF lv.tb <= t_extent[1] \/ lv.tb >= t_extent[2]
        THEN [neg |-> Sorted2(e0, e1), pos |-> Sorted2(e0, e1)]
        ELSE [neg |-> Sorted2(lv.r_inflection_point[1], e1),
              pos |-> Sorted2(e0, lv.r_inflection_point[1])]

\* lines 332-342
track_r_extents(self, lv, t_extent) ==
    LET e0 == cr(point(self, t_extent[1]))
        e1 == cr(point(self, t_extent[2]))
    IN  IF lv.tb <= t_extent[1]
        THEN [neg |-> Sorted2(e0, e1), pos |-> <<0, 0>>]
        ELSE IF lv.tb >= t_extent[2]
        THEN [neg |-> <<0, 0>>, pos |-> Sorted2(e0, e1)]
        ELSE [neg |-> Sorted2(lv.r_inflection_point[1], e1),
              pos |-> Sorted2(e0, lv.r_inflection_point[1])]

\* lines 344-354
track_theta_extents(self, lv, t_extent) ==
    LET e0 == ctheta(point(self, t_extent[1]))
        e1 == ctheta(point(self, t_extent[2]))
    IN  IF FLe(lv.ts, t_extent[1])
        THEN [neg |-> <<e0, e1>>, pos |-> None]
        ELSE IF FGe(lv.ts, t_extent[2])
        THEN [neg |-> None, pos |-> <<e0, e1>>]
        ELSE [neg |-> <<e0, lv.theta_inflection_point[1]>>,
              pos |-> <<lv.theta_inflection_point[1], e1>>]

\* the two azimuths sorted and never rotated
track_phi_extent_sorted(self, t_extent) ==
    LET a == cphi(point(self, t_extent[1]))
        b == cphi(point(self, t_extent[2]))
    IN  IF PhLt(b, a) THEN <<b, a>> ELSE <<a, b>>

\* lines 356-359
track_phi_extent(self, t_extent) ==
    LET a == cphi(point(self, t_extent[1]))
        b == cphi(point(self, t_extent[2]))
        lo == IF PhLt(b, a) THEN b ELSE a
        hi == IF PhLt(b, a) THEN a ELSE b
    IN  IF PhiCross(lo, hi) < 0 THEN <<hi, lo>> ELSE <<lo, hi>>

\* the names get_z_matrix reads unbound in a time window (NameError)
reads_unbound(self, lv, t_extent) ==
    \/ /\ ~(lv.tb <= t_extent[1]) /\ ~(lv.tb >= t_extent[2])
       /\ lv.r_inflection_point = Unbound
    \/ /\ ~FLe(lv.ts, t_extent[1]) /\ ~FGe(lv.ts, t_extent[2])
       /\ lv.theta_inflection_point = Unbound

\* an accumulation without the test A <= B
overlap_untested(r, theta, phi) ==
    IF r = None \/ theta = None \/ phi = None THEN 0
    ELSE FSub(PyMin3(r[2], theta[2], phi[2]), PyMax3(r[1], theta[1], phi[1]))

\* lines 380-384: what one combination of intervals adds to a cell
overlap(r, theta, phi) ==
    IF r = None \/ theta = None \/ phi = None THEN 0
    ELSE LET A == PyMax3(r[1], theta[1], phi[1])
             B == PyMin3(r[2], theta[2], phi[2])
         IN  IF FLe(A, B) THEN FSub(B, A) ELSE 0

\* lines 361-366: the interval lists of a time window
intervals(self, bins, lv, t_extent) ==
    LET rho_extent == <<TimesC(t_extent[1]), TimesC(t_extent[2])>>
        re == track_r_extents(self, lv, t_extent)
        te == track_theta_extents(self, lv, t_extent)
        pe == track_phi_extent(self, t_extent)
    IN  [theta_inter_neg |-> correlate_theta(self, bins.theta, te.neg, rho_extent),
         theta_inter_pos |-> correlate_theta(self, bins.theta, te.pos, rho_extent),
         phi_inter |-> correlate_phi(self, bins.phi, pe, rho_extent),
         r_inter_neg |-> correlate_r(self, bins.r, re.neg, FALSE),
         r_inter_pos |-> correlate_r(self, bins.r, re.pos, TRUE)]

\* four loops that assign to the cell instead of adding to it: the last
\* combination with an overlap wins
added_overwriting(iv, j, m, i) ==
    LET nn == overlap(iv.r_inter_neg[j], iv.theta_inter_neg[m], iv.phi_inter[i])
        pn == overlap(iv.r_inter_pos[j], iv.theta_inter_neg[m], iv.phi_inter[i])
        np == overlap(iv.r_inter_neg[j], iv.theta_inter_pos[m], iv.phi_inter[i])
        pp == overlap(iv.r_inter_pos[j], iv.theta_inter_pos[m], iv.phi_inter[i])
    IN  IF pp # 0 THEN pp ELSE IF np # 0 THEN np ELSE IF pn # 0 THEN pn ELSE nn

\* lines 370-414: the length the four loops add to cell (j, m, i)
added(iv, j, m, i) ==
    FAdd(FAdd(overlap(iv.r_inter_neg[j], iv.theta_inter_neg[m], iv.phi_inter[i]),
              overlap(iv.r_inter_pos[j], iv.theta_inter_neg[m], iv.phi_inter[i])),
         FAdd(overlap(iv.r_inter_neg[j], iv.theta_inter_pos[m], iv.phi_inter[i]),
              overlap(iv.r_inter_pos[j], iv.theta_inter_pos[m], iv.phi_inter[i])))

\* line 317: np.zeros raises ValueError for a negative dimension, the
\* len(...) - 1 of an empty edge sequence
negative_dimension(bins) ==
    Len(bins.t) = 0 \/ Len(bins.r) = 0 \/ Len(bins.theta) = 0 \/ Len(bins.phi) = 0

\* a matrix with one cell per edge instead of one per bin
zeros_per_edge(bins) ==
    [idx \in (1..Len(bins.t)) \X (1..Len(bins.r))
             \X (1..Len(bins.theta)) \X (1..Len(bins.phi)) |-> 0]

\* line 317
zeros(bins) ==
    [idx \in (1..(Len(bins.t) - 1)) \X (1..(Len(bins.r) - 1))
             \X (1..(Len(bins.theta) - 1)) \X (1..(Len(bins.phi) - 1)) |-> 0]

\* a pass that adds the lengths of time bin k to every row of the matrix
fill_every_row(self, bins, lv, z, k) ==
    LET t_extent == extent(self, bins.t[k], bins.t[k + 1])
        iv == intervals(self, bins, lv, t_extent)
    IN  IF t_extent = None THEN z
        ELSE [idx \in DOMAIN z |-> FAdd(z[idx], added(iv, idx[2], idx[3], idx[4]))]

\* one pass of the loop over time bins (lines 320-414) on the matrix z
fill_time_bin(self, bins, lv, z, k) ==
    LET t_extent == extent(self, bins.t[k], bins.t[k + 1])
        iv == intervals(self, bins, lv, t_extent)
    IN  IF t_extent = None THEN z
        ELSE [idx \in DOMAIN z |->
                IF idx[1] = k
                THEN FAdd(z[idx], added(iv, idx[2], idx[3], idx[4]))
                ELSE z[idx]]

time_bin_raises(self, bins, lv, k) ==
    LET t_extent == extent(self, bins.t[k], bins.t[k + 1])
    IN  t_extent # None /\ reads_unbound(self, lv, t_extent)

\* the locals of get_z_matrix after lines 304-314
locals(self) ==
    [tb |-> tb(self), ts |-> ts(self),
     r_inflection_point |-> r_inflection(self, tb(self)),
     theta_inflection_point |-> theta_inflection(self, ts(self))]

Result(status, z) == [status |-> status, z |-> z]

RECURSIVE fill_from(_, _, _, _, _)
fill_from(self, bins, lv, z, k) ==
    IF k > Len(bins.t) - 1 THEN Result("returned", z)
    ELSE IF time_bin_raises(self, bins, lv, k) THEN Result("NameError", None)
    ELSE fill_from(self, bins, lv, fill_time_bin(self, bins, lv, z, k), k + 1)

\* get_z_matrix(Dt, Dx, Dy, Dz) run alone, from the call to the return or
\* the exception that ends it; bins is None before set_binning
get_z_matrix(self, bins, D) ==
    LET s == set_origin(self, D[1], D[2], D[3], D[4])
    IN  IF bins = None THEN Result("TypeError", None)
        ELSE IF negative_dimension(bins) THEN Result("ValueError", None)
        ELSE fill_from(s, bins, locals(s), zeros(bins), 1)

\* the sum of the cells of matrix z whose index is in S
RECURSIVE SumOver(_, _)
SumOver(z, S) ==
    IF S = {} THEN 0
    ELSE LET idx == CHOOSE e \in S : TRUE
         IN  FAdd(z[idx], SumOver(z, S \ {idx}))

\* the sum of the cells of time bin k and radius bin j
TotalOfRadiusBin(z, k, j) == SumOver(z, {idx \in DOMAIN z : idx[1] = k /\ idx[2] = j})

RECURSIVE TotalOfRadiusBinsUpTo(_, _, _)
TotalOfRadiusBinsUpTo(z, k, j) ==
    IF j = 0 THEN 0
    ELSE FAdd(TotalOfRadiusBin(z, k, j), TotalOfRadiusBinsUpTo(z, k, j - 1))

\* the sum of the cells of time bin k
TotalOfTimeBin(z, k) ==
    TotalOfRadiusBinsUpTo(z, k, Cardinality({idx[2] : idx \in DOMAIN z}))

RECURSIVE TotalUpTo(_, _)
TotalUpTo(z, k) ==
    IF k = 0 THEN 0 ELSE FAdd(TotalOfTimeBin(z, k), TotalUpTo(z, k - 1))

\* the sum of all cells
Total(z) == TotalUpTo(z, Cardinality({idx[1] : idx \in DOMAIN z}))

\* ------------------------------------------------------------------ inputs

\* polar angles 0, pi/4, pi/2, pi
Th0 == Theta(1, 1)
ThQuarter == Theta(1, 2)
ThPi == Theta(0 - 1, 1)
\* azimuths pi/2, pi, 3 pi/2
PhQuarter == Phi(0, 1, 0)
PhHalfTurn == Phi(0 - 1, 0, 0)
PhThreeQuarter == Phi(0, 0 - 1, 0)

\* constructor arguments (t_v, x_v, y_v, z_v, phi, theta, length): two tracks on
\* the polar axis (above the origin, and through it), a vertical track off
\* the axis, a horizontal track that crosses azimuth 0 from below, a
\* horizontal track in the plane z = 0, and a horizontal track that crosses
\* azimuth pi from above
TrackSet ==
    {<<20, 0, 0, 1, PhiZero, Th0, 4>>,
     <<20, 0, 0, 0 - 2, PhiZero, Th0, 4>>,
     <<20, 3, 0, 0 - 4, PhiZero, Th0, 8>>,
     <<20, 4, 0 - 3, 3, PhQuarter, ThetaHalfPi, 6>>,
     <<20, 1, 0, 0, PhiZero, ThetaHalfPi, 4>>,
     <<20, 0 - 4, 0 - 5, 3, PhQuarter, ThetaHalfPi, 6>>}

\* origins (Dt, Dx, Dy, Dz)
OriginSet == {<<0, 0, 0, 0>>, <<20, 0, 0, 0>>, <<0, 0, 4, 0>>}

Bins(t, r, theta, phi) == [t |-> t, r |-> r, theta |-> theta, phi |-> phi]

TEdges == <<0, 30, 60, 100>>
TEdgesFine == <<0, 30, 40, 60, 100>>
\* radius edges 0, 3, 5, 100 and 0, 2, 3, 5, 100 (held as squares)
REdges == <<0, 9, 25, 10000>>
REdgesFine == <<0, 4, 9, 25, 10000>>
ThetaEdges == <<Th0, ThetaHalfPi, ThPi>>
ThetaEdgesFine == <<Th0, ThQuarter, ThetaHalfPi, ThPi>>
PhiEdgesWide == <<PhiZero, PhiTwoPi>>
PhiEdgesHalf == <<PhiZero, PhHalfTurn, PhiTwoPi>>
PhiEdges == <<PhiZero, PhQuarter, PhHalfTurn, PhThreeQuarter, PhiTwoPi>>

BinningSet ==
    {Bins(TEdges, REdges, ThetaEdges, PhiEdges),
     Bins(TEdgesFine, REdges, ThetaEdges, PhiEdges),
     Bins(TEdges, REdgesFine, ThetaEdges, PhiEdges),
     Bins(TEdges, REdges, ThetaEdgesFine, PhiEdges),
     Bins(TEdges, REdges, ThetaEdges, PhiEdgesWide),
     Bins(TEdges, REdges, ThetaEdges, PhiEdgesHalf)}

\* times passed to track.point: 10 ns apart, from -10 to 10 * MaxPointTime
MaxPointTime == 11
PointTimes == {10 * i : i \in (0 - 1)..MaxPointTime}

\* binnings with one polar-angle bin, which straddles pi/2, and the binning
\* with an edge at pi/2
ThetaEdgesWide == <<Th0, ThPi>>
WideBinningSet ==
    {Bins(TEdges, REdges, ThetaEdgesWide, PhiEdges),
     Bins(TEdges, REdges, ThetaEdgesWide, PhiEdgesWide),
     Bins(TEdges, REdges, ThetaEdges, PhiEdges)}

\* ------------------------------------------------- utils/geom.py: binning

\* geom.py computes in float64.  The model computes in binary floats with
\* round to nearest, ties to even, and a mantissa of MantissaBits bits
\* instead of 53: a float is m * 2^e with m = 0 or
\* 2^(MantissaBits - 1) <= m < 2^MantissaBits.  13 = 53 mod 4, so 1/10, 1/5
\* and 1/3 round in the same direction as in float64.  All floats here are
\* >= 0.
MantissaBits == 13

Fl(m, e) == [m |-> m, e |-> e]
FlZero == Fl(0, 0)

RECURSIVE BitLength(_)
BitLength(n) == IF n = 0 THEN 0 ELSE 1 + BitLength(n \div 2)

\* the float nearest to n * 2^e
FlRound(n, e) ==
    IF n = 0 THEN FlZero
    ELSE LET k == BitLength(n) - MantissaBits
         IN  IF k <= 0 THEN Fl(n * 2^(0 - k), e + k)
             ELSE LET q == n \div 2^k
                      r == n % 2^k
                      half == 2^(k - 1)
                      up == IF r > half \/ (r = half /\ q % 2 = 1) THEN q + 1 ELSE q
                  IN  IF up = 2^MantissaBits THEN Fl(up \div 2, e + k + 1)
                      ELSE Fl(up, e + k)

FlFromInt(n) == FlRound(n, 0)

\* the mantissa of a at exponent e <= a.e
FlAligned(a, e) == a.m * 2^(a.e - e)

FlLe(a, b) == FlAligned(a, Min2(a.e, b.e)) <= FlAligned(b, Min2(a.e, b.e))
FlLt(a, b) == FlAligned(a, Min2(a.e, b.e)) < FlAligned(b, Min2(a.e, b.e))

FlAdd(a, b) ==
    IF a.m = 0 THEN b ELSE IF b.m = 0 THEN a
    ELSE FlRound(FlAligned(a, Min2(a.e, b.e)) + FlAligned(b, Min2(a.e, b.e)), Min2(a.e, b.e))

\* a - b for a >= b
FlSub(a, b) ==
    IF b.m = 0 THEN a
    ELSE FlRound(FlAligned(a, Min2(a.e, b.e)) - FlAligned(b, Min2(a.e, b.e)), Min2(a.e, b.e))

FlMul(a, b) == FlRound(a.m * b.m, a.e + b.e)

\* a / b: the quotient of the mantissas to MantissaBits + 2 bits and a
\* sticky bit, rounded
FlDiv(a, b) ==
    IF a.m = 0 THEN FlZero
    ELSE LET n == a.m * 2^(MantissaBits + 2)
         IN  FlRound(2 * (n \div b.m) + (IF n % b.m = 0 THEN 0 ELSE 1),
                     a.e - b.e - MantissaBits - 3)

\* a // b: Python's floor division of floats is the floor of the exact
\* quotient (a number of bins: an integer)
FlFloorDiv(a, b) == FlAligned(a, Min2(a.e, b.e)) \div FlAligned(b, Min2(a.e, b.e))

\* the largest r in lo..hi with r * r <= n
RECURSIVE ISqrtBetween(_, _, _)
ISqrtBetween(n, lo, hi) ==
    IF lo = hi THEN lo
    ELSE LET mid == (lo + hi + 1) \div 2
         IN  IF mid * mid <= n THEN ISqrtBetween(n, mid, hi)
             ELSE ISqrtBetween(n, lo, mid - 1)

ISqrt(n) == ISqrtBetween(n, 0, 2^15)

\* the square root, rounded
FlSqrt(a) ==
    IF a.m = 0 THEN FlZero
    ELSE LET sh == IF (a.e - MantissaBits) % 2 = 0 THEN MantissaBits + 2
                   ELSE MantissaBits + 3
             n == a.m * 2^sh
             r == ISqrt(n)
         IN  FlRound(2 * r + (IF r * r = n THEN 0 ELSE 1), (a.e - sh) \div 2 - 1)

FlOne == FlFromInt(1)
FlTwo == FlFromInt(2)
FlHalf == FlDiv(FlOne, FlTwo)

\* x ** y and np.power(x, y) for the exponents 1, 2 and 1/2
FlPow(x, y) ==
    IF y = FlOne THEN x
    ELSE IF y = FlTwo THEN FlMul(x, x)
    ELSE IF y = FlHalf THEN FlSqrt(x)
    ELSE CHOOSE v \in {} : TRUE

\* the floats next to a
FlPred(a) ==
    IF a.m > 2^(MantissaBits - 1) THEN Fl(a.m - 1, a.e) ELSE Fl(2^MantissaBits - 1, a.e - 1)

FlSucc(a) ==
    IF a.m + 1 < 2^MantissaBits THEN Fl(a.m + 1, a.e) ELSE Fl(2^(MantissaBits - 1), a.e + 1)

\* np.linspace(start, stop, num), num >= 2: arange(num) * step + start, the
\* last edge set to stop
linspace(start, stop, num) ==
    LET step == FlDiv(FlSub(stop, start), FlFromInt(num - 1))
    IN  [i \in 1..num |->
            IF i = num THEN stop ELSE FlAdd(FlMul(FlFromInt(i - 1), step), start)]

\* np.digitize(v, edges) for ascending edges: the number of edges <= v
digitize(v, edges) == Cardinality({i \in DOMAIN edges : FlLe(edges[i], v)})

linbin_numba(val, start, stop, num) ==
    LET num_bins == num - 1
        width == FlDiv(FlSub(stop, start), FlFromInt(num_bins))
    IN  FlFloorDiv(FlSub(val, start), width)

linbin_numpy(val, start, stop, num) ==
    LET num_bins == num - 1
        width == FlDiv(FlSub(stop, start), FlFromInt(num_bins))
        bin_num == FlFloorDiv(FlSub(val, start), width)
    IN  bin_num

powerbin_numba(val, start, stop, num, power) ==
    LET num_bins == num - 1
        inv_power == FlDiv(FlOne, FlFromInt(power))
        inv_power_start == FlPow(start, inv_power)
        inv_power_stop == FlPow(stop, inv_power)
        inv_power_width == FlDiv(FlSub(inv_power_stop, inv_power_start), FlFromInt(num_bins))
    IN  FlFloorDiv(FlSub(FlPow(val, inv_power), inv_power_start), inv_power_width)

powerbin_numpy(val, start, stop, num, power) ==
    LET num_bins == num - 1
        inv_power == FlDiv(FlOne, FlFromInt(power))
        inv_power_start == FlPow(start, inv_power)
        inv_power_stop == FlPow(stop, inv_power)
        inv_power_width == FlDiv(FlSub(inv_power_stop, inv_power_start), FlFromInt(num_bins))
        bin_num == FlFloorDiv(FlSub(FlPow(val, inv_power), inv_power_start), inv_power_width)
    IN  bin_num

powerspace(start, stop, num, power) ==
    LET inv_power == FlDiv(FlOne, FlFromInt(power))
        liner_edges == linspace(FlPow(start, inv_power), FlPow(stop, inv_power), num)
        bin_edges == [i \in 1..num |-> FlPow(liner_edges[i], FlFromInt(power))]
    IN  bin_edges

\* ------------------------------------------- tables/pexp_5d.py: evaluators
\* A direction component is held in halves and a squared direction length in
\* quarters.  The tables hold 1 in every cell and every normalization and
\* template weight is 1, so every survival probability read or averaged from
\* them is 1; quantum_efficiency is 1.  The DOM is at (0, 0, 0) and a source
\* lies on the x axis and points along it.

Halves(n) == 2 * n
Quarters(n) == 4 * n

KindSet == {"raw_uncompr", "raw_templ_compr", "ckv_uncompr", "ckv_templ_compr"}

\* the binning of the table: r_bin_edges = [0, 1, 2, 3] (power 1),
\* t_bin_edges = [0, 2, 4] and two bins in each other dimension
TableBinning ==
    [r_max |-> 3, n_r_bins |-> 3, n_costheta_bins |-> 2, t_max |-> 4, n_t_bins |-> 2,
     n_costhetadir_bins |-> 2, n_deltaphidir_bins |-> 2]

\* generate_pexp_5d_function: the closure variables of the returned evaluator
generate_pexp_5d_function(table, table_kind, compute_t_indep_exp, use_directionality) ==
    [table_kind |-> table_kind,
     tbl_is_raw |-> table_kind \in {"raw_uncompr", "raw_templ_compr"},
     tbl_is_templ_compr |-> table_kind \in {"raw_templ_compr", "ckv_templ_compr"},
     compute_t_indep_exp |-> compute_t_indep_exp,
     use_directionality |-> use_directionality,
     rsquared_max |-> table.r_max * table.r_max,
     table_dr_pwr |-> Quot(table.r_max, table.n_r_bins),
     table_dcostheta |-> Quot(2, table.n_costheta_bins),
     t_max |-> table.t_max,
     table_dt |-> Quot(table.t_max, table.n_t_bins),
     table_dcosthetadir |-> Quot(2, table.n_costhetadir_bins),
     last_costhetadir_bin_idx |-> table.n_costhetadir_bins - 1,
     last_deltaphidir_bin_idx |-> table.n_deltaphidir_bins - 1]

\* the locals of an evaluator before its loop over the sources (lines 261-282
\* and 567-583); a local that is not assigned holds Unbound
pexp_locals(f, hit_times) ==
    [status |-> "running", emitter_error |-> "none",
     exp_p_at_all_times |-> 0,
     exp_p_at_hit_times |-> [j \in 1..Len(hit_times) |-> 0],
     prev_r_bin_idx |-> 0 - 1, prev_costheta_bin_idx |-> 0 - 1,
     new_r_bin |-> Unbound, new_costheta_bin |-> Unbound,
     pdir_rsquared |-> IF f.tbl_is_templ_compr THEN Unbound ELSE NaN,
     pdir_r |-> IF f.tbl_is_templ_compr
                THEN (IF f.use_directionality THEN Unbound ELSE 0)
                ELSE NaN,
     prev_pdir |-> IF f.use_directionality THEN NaN ELSE Unbound,
     new_pdir_r |-> IF f.use_directionality THEN Unbound ELSE FALSE,
     r_bin_idx |-> Unbound, costheta_bin_idx |-> Unbound,
     costhetadir_bin_idx |-> Unbound, deltaphidir_bin_idx |-> Unbound,
     t_indep_surv_prob |-> Unbound,
     dir_idx_source |-> 0,      \* the source the direction-bin indices were computed for
     branches |-> <<>>,         \* the emitter branch taken for each source in range
     uncomputed_reads |-> {}]   \* the sources for which a direction-bin index
                                \* was read that was not computed for them

\* the if / elif chain on the direction length v: a comparison with nan is
\* False, so nan takes the final else
Emitter(v, one) ==
    IF IsNaN(v) THEN "gaussian"
    ELSE IF v = 0 THEN "isotropic"
    ELSE IF v < one THEN "cherenkov"
    ELSE IF v = one THEN "line"
    ELSE "gaussian"

\* the exception of the line-emitter and Gaussian-emitter branches
EmitterError(f) ==
    IF f.tbl_is_raw /\ ~f.tbl_is_templ_compr THEN "NotImplementedError" ELSE "ValueError"

\* whether the branch of emitter e uses the direction-bin indices
ComputesDirIdx(f, e) ==
    e = "cherenkov" /\ (f.tbl_is_templ_compr \/ ~f.tbl_is_raw)

ReadsDirIdx(f, e) ==
    \/ f.tbl_is_templ_compr /\ e \in {"isotropic", "cherenkov"}
    \/ ~f.tbl_is_templ_compr /\ ~f.tbl_is_raw /\ e = "cherenkov"

\* lines 291-333 and 592-631: the bin of the source and its direction length
pexp_source_bins(f, lv, s) ==
    LET dx == 0 - s.x
        r == Sqrt(dx * dx)
        r_bin_idx == r \div f.table_dr_pwr
        costheta_bin_idx == (1 - Quot(0, r)) \div f.table_dcostheta
        rsq == s.dir_x * s.dir_x
        key == IF f.tbl_is_templ_compr THEN Abs(s.dir_x) ELSE rsq
        lv1 == [lv EXCEPT !.r_bin_idx = r_bin_idx, !.costheta_bin_idx = costheta_bin_idx,
                          !.new_r_bin = (r_bin_idx # lv.prev_r_bin_idx),
                          !.prev_r_bin_idx = r_bin_idx,
                          !.new_costheta_bin = (costheta_bin_idx # lv.prev_costheta_bin_idx),
                          !.prev_costheta_bin_idx = costheta_bin_idx]
    IN  IF f.use_directionality
        THEN [lv1 EXCEPT !.pdir_rsquared = IF f.tbl_is_templ_compr THEN @ ELSE rsq,
                         !.pdir_r = Abs(s.dir_x),
                         !.new_pdir_r = (IsNaN(lv.prev_pdir) \/ key # lv.prev_pdir),
                         !.prev_pdir = key]
        ELSE lv1

\* lines 335-450 and 633-700: the branch of the emitter, for source number n
pexp_emitter_branch(f, lv, s, n) ==
    LET e == IF f.tbl_is_templ_compr THEN Emitter(lv.pdir_r, Halves(1))
             ELSE Emitter(lv.pdir_rsquared, Quarters(1))
        lv1 == [lv EXCEPT !.branches = Append(@, e)]
        pdir_cosdeltaphi == Sign(s.dir_x) * Sign(0 - s.x)
    IN  IF e = "isotropic"
        THEN IF f.compute_t_indep_exp
                /\ (lv.new_pdir_r \/ lv.new_r_bin \/ lv.new_costheta_bin)
             THEN [lv1 EXCEPT !.t_indep_surv_prob = <<1>>]
             ELSE lv1
        ELSE IF e = "cherenkov"
        THEN IF ComputesDirIdx(f, e)
             THEN [lv1 EXCEPT
                     !.costhetadir_bin_idx =
                         <<Min2((0 + 1) \div f.table_dcosthetadir, f.last_costhetadir_bin_idx)>>,
                     !.deltaphidir_bin_idx =
                         <<IF pdir_cosdeltaphi = 1 THEN 0 ELSE f.last_deltaphidir_bin_idx>>,
                     !.dir_idx_source = n,
                     !.t_indep_surv_prob = <<1>>]
             ELSE IF f.compute_t_indep_exp
             THEN [lv1 EXCEPT !.t_indep_surv_prob = <<1>>]
             ELSE lv1
        ELSE [lv1 EXCEPT !.status = EmitterError(f), !.emitter_error = e]

\* lines 452-455 and 702-705
pexp_t_indep(f, lv, s) ==
    IF lv.status # "running" \/ ~f.compute_t_indep_exp THEN lv
    ELSE IF lv.t_indep_surv_prob = Unbound THEN [lv EXCEPT !.status = "UnboundLocalError"]
    ELSE [lv EXCEPT !.exp_p_at_all_times = @ + s.photons * lv.t_indep_surv_prob[1]]

\* lines 457-544 and 707-762: the loop over the hit times from hit j on.  u is
\* what a read of an unassigned local does: it raises, or it yields a value
\* that was never computed
RECURSIVE pexp_hit_loop(_, _, _, _, _, _, _)
pexp_hit_loop(f, lv, s, n, hit_times, j, u) ==
    IF j > Len(hit_times) \/ lv.status # "running" THEN lv
    ELSE IF ~FLe(s.t, hit_times[j]) \/ hit_times[j] - s.t >= f.t_max
    THEN pexp_hit_loop(f, lv, s, n, hit_times, j + 1, u)
    ELSE LET e == Emitter(lv.pdir_r, Halves(1))
             reads == ReadsDirIdx(f, e)
             lv1 == IF reads /\ lv.dir_idx_source # n
                    THEN [lv EXCEPT !.uncomputed_reads = @ \cup {n}] ELSE lv
             unassigned == reads /\ lv.costhetadir_bin_idx = Unbound
             surv_prob_at_hit_t == IF unassigned THEN u.value ELSE 1
         IN  IF e \in {"line", "gaussian"}
             THEN [lv EXCEPT !.status = EmitterError(f), !.emitter_error = e]
             ELSE IF unassigned /\ u.raises
             THEN [lv1 EXCEPT !.status = "UnboundLocalError"]
             ELSE pexp_hit_loop(f,
                      [lv1 EXCEPT !.exp_p_at_hit_times[j] = @ + s.photons * surv_prob_at_hit_t],
                      s, n, hit_times, j + 1, u)

\* one pass of the loop over the sources (lines 291-544 and 589-762)
pexp_source(f, lv, s, n, hit_times, u) ==
    LET dx == 0 - s.x
    IN  IF dx * dx >= f.rsquared_max THEN lv
        ELSE pexp_hit_loop(f,
                 pexp_t_indep(f, pexp_emitter_branch(f, pexp_source_bins(f, lv, s), s, n), s),
                 s, n, hit_times, 1, u)

\* what a read of a local that was never assigned can do
UndefinedOutcomes ==
    {[raises |-> TRUE, value |-> 0], [raises |-> FALSE, value |-> 0],
     [raises |-> FALSE, value |-> 1]}

\* the longest sequence of sources
MaxSources == 2

\* sources in the radial range (x = 1) and outside it (x = 5), without
\* a direction, with a direction of length 1/2, 1 and 3/2
SourceSet ==
    {[x |-> x, dir_x |-> d, photons |-> 1, t |-> 0] : x \in {1, 5}, d \in {0, 1, 2, 3}}

RECURSIVE SeqsUpTo(_, _)
SeqsUpTo(S, n) ==
    IF n = 0 THEN {<<>>}
    ELSE LET shorter == SeqsUpTo(S, n - 1)
         IN  shorter \cup {Append(q, e) : q \in shorter, e \in S}

SourcesSet == SeqsUpTo(SourceSet, MaxSources)

\* no hit, one hit, and a nan, a hit after the time range and a hit in it
HitTimesSet == {<<>>, <<1>>, <<NaN, 9, 3>>}

\* ------------------------------------------------------------------ state

Procs == {1, 2}

VARIABLES
    ctor,         \* the constructor arguments of the hypothesis (never change)
    track,        \* hypo.track: the track object, its attached origin included
    binning,      \* the four bin-edge attributes of hypo: None until set_binning
    last_origin,  \* the argument of the latest set_origin
    pc,           \* per caller: where its get_z_matrix call stands
    loc,          \* per caller: the locals of its get_z_matrix call
    out,          \* per caller: how its latest finished call ended
    geom,         \* utils/geom.py: the locals of the binning tests
    pexp          \* tables/pexp_5d.py: the generated evaluator and its call

vars == <<ctor, track, binning, last_origin, pc, loc, out, geom, pexp>>

NoLocals ==
    [D |-> None, tb |-> Unbound, ts |-> Unbound,
     r_inflection_point |-> Unbound, theta_inflection_point |-> Unbound,
     z |-> Unbound, k |-> 0]

NoOutcome == [op |-> "none"]

\* no evaluator has been generated
NoPexp == [f |-> None, call |-> None]

NoGeom == [test |-> "none"]

Construct(a) == track_init(a[1], a[2], a[3], a[4], a[5], a[6], a[7])

\* hypo.__init__
Init ==
    /\ ctor \in TrackSet
    /\ track = Construct(ctor)
    /\ binning = None
    /\ last_origin = <<0, 0, 0, 0>>
    /\ pc = [p \in Procs |-> "idle"]
    /\ loc = [p \in Procs |-> NoLocals]
    /\ out = [p \in Procs |-> NoOutcome]
    /\ geom = NoGeom
    /\ pexp = NoPexp

AllIdle == \A p \in Procs : pc[p] = "idle"

\* hypo.set_binning
SetBinning(b) ==
    /\ AllIdle
    /\ binning' = b
    /\ UNCHANGED <<pexp, geom, ctor, track, last_origin, pc, loc, out>>

\* track.set_origin called by the user
SetOrigin(p, D) ==
    /\ AllIdle
    /\ track' = set_origin(track, D[1], D[2], D[3], D[4])
    /\ last_origin' = D
    /\ out' = [out EXCEPT ![p] = [op |-> "set_origin", D |-> D]]
    /\ UNCHANGED <<pexp, geom, ctor, binning, pc, loc>>

\* track.point called by the user
Point(p, t) ==
    /\ AllIdle
    /\ out' = [out EXCEPT ![p] =
                 IF point_ok(track, t)
                 THEN [op |-> "point", t |-> t, status |-> "returned",
                       value |-> point(track, t)]
                 ELSE [op |-> "point", t |-> t, status |-> "AssertionError",
                       value |-> None]]
    /\ UNCHANGED <<pexp, geom, ctor, track, binning, last_origin, pc, loc>>

\* track.extent called by the user
Extent(p, t_low, t_high) ==
    /\ AllIdle
    /\ t_low <= t_high
    /\ out' = [out EXCEPT ![p] = [op |-> "extent", t_low |-> t_low, t_high |-> t_high,
                                  value |-> extent(track, t_low, t_high)]]
    /\ UNCHANGED <<pexp, geom, ctor, track, binning, last_origin, pc, loc>>

\* get_z_matrix, line 302
Enter(p, D) ==
    /\ pc[p] = "idle"
    /\ track' = set_origin(track, D[1], D[2], D[3], D[4])
    /\ last_origin' = D
    /\ pc' = [pc EXCEPT ![p] = "tb"]
    /\ loc' = [loc EXCEPT ![p] = [NoLocals EXCEPT !.D = D]]
    /\ out' = [out EXCEPT ![p] = [op |-> "get_z_matrix", D |-> D, bins |-> binning,
                                  status |-> "running", z |-> None]]
    /\ UNCHANGED <<pexp, geom, ctor, binning>>

\* a call made while no other call runs
Call(p, D) == AllIdle /\ Enter(p, D)

\* a call made while another caller's call may be running; each caller
\* makes one call
ParCall(p, D) == out[p] = NoOutcome /\ Enter(p, D)

\* lines 304-308
StepTb(p) ==
    /\ pc[p] = "tb"
    /\ loc' = [loc EXCEPT ![p].tb = tb(track),
                          ![p].r_inflection_point = r_inflection(track, tb(track))]
    /\ pc' = [pc EXCEPT ![p] = "ts"]
    /\ UNCHANGED <<pexp, geom, ctor, track, binning, last_origin, out>>

\* lines 310-314
StepTs(p) ==
    /\ pc[p] = "ts"
    /\ loc' = [loc EXCEPT ![p].ts = ts(track),
                          ![p].theta_inflection_point = theta_inflection(track, ts(track))]
    /\ pc' = [pc EXCEPT ![p] = "zeros"]
    /\ UNCHANGED <<pexp, geom, ctor, track, binning, last_origin, out>>

Finished(p, status, z) ==
    /\ out' = [out EXCEPT ![p] =
                 [op |-> "get_z_matrix", D |-> loc[p].D, bins |-> binning,
                  status |-> status, z |-> z]]
    /\ pc' = [pc EXCEPT ![p] = "idle"]
    /\ loc' = [loc EXCEPT ![p] = NoLocals]

\* line 317: len(None) raises TypeError, a negative dimension ValueError
StepZeros(p) ==
    /\ pc[p] = "zeros"
    /\ IF binning = None
       THEN Finished(p, "TypeError", None)
       ELSE IF negative_dimension(binning)
       THEN Finished(p, "ValueError", None)
       ELSE /\ loc' = [loc EXCEPT ![p].z = zeros(binning), ![p].k = 1]
            /\ pc' = [pc EXCEPT ![p] = "loop"]
            /\ out' = out
    /\ UNCHANGED <<pexp, geom, ctor, track, binning, last_origin>>

\* lines 320-414: one time bin
StepTimeBin(p) ==
    /\ pc[p] = "loop"
    /\ loc[p].k <= Len(binning.t) - 1
    /\ IF time_bin_raises(track, binning, loc[p], loc[p].k)
       THEN Finished(p, "NameError", None)
       ELSE /\ loc' = [loc EXCEPT
                         ![p].z = fill_time_bin(track, binning, loc[p], loc[p].z, loc[p].k),
                         ![p].k = loc[p].k + 1]
            /\ UNCHANGED <<pc, out>>
    /\ UNCHANGED <<pexp, geom, ctor, track, binning, last_origin>>

\* line 416
Return(p) ==
    /\ pc[p] = "loop"
    /\ loc[p].k > Len(binning.t) - 1
    /\ Finished(p, "returned", loc[p].z)
    /\ UNCHANGED <<pexp, geom, ctor, track, binning, last_origin>>

Step(p) == StepTb(p) \/ StepTs(p) \/ StepZeros(p) \/ StepTimeBin(p) \/ Return(p)

\* one caller: every call runs alone
Next ==
    \/ \E b \in BinningSet : SetBinning(b)
    \/ \E D \in OriginSet : SetOrigin(1, D)
    \/ \E t \in PointTimes : Point(1, t)
    \/ \E t_low, t_high \in PointTimes : Extent(1, t_low, t_high)
    \/ \E D \in OriginSet : Call(1, D)
    \/ Step(1)

Spec == Init /\ [][Next]_vars

\* two callers on one hypothesis object, no synchronization
NextPar ==
    \/ \E b \in BinningSet : out = [p \in Procs |-> NoOutcome] /\ SetBinning(b)
    \/ \E p \in Procs : \E D \in OriginSet : ParCall(p, D)
    \/ \E p \in Procs : Step(p)

SpecPar == Init /\ [][NextPar]_vars

\* the tracks of TrackSet and a horizontal track below the plane z = 0, whose
\* polar angle ascends above pi/2 up to its closest approach to the axis
WideTrackSet == TrackSet \cup {<<20, 0 - 4, 0 - 5, 0 - 3, PhQuarter, ThetaHalfPi, 6>>}

InitWide ==
    /\ ctor \in WideTrackSet
    /\ track = Construct(ctor)
    /\ binning = None
    /\ last_origin = <<0, 0, 0, 0>>
    /\ pc = [p \in Procs |-> "idle"]
    /\ loc = [p \in Procs |-> NoLocals]
    /\ out = [p \in Procs |-> NoOutcome]
    /\ geom = NoGeom
    /\ pexp = NoPexp

\* the largest along-track distance from the closest approach at which a
\* radius is taken, and the largest amount by which a radius (squared) is
\* taken below the distance of closest approach (squared)
MaxRoot == 5

\* the square of the distance of closest approach of the line to the origin
ClosestSq(self) ==
    x0(self) * x0(self) + y0(self) * y0(self) + z0(self) * z0(self)
    - Proj(self) * Proj(self)

\* track.rho_of_r_neg(R) and track.rho_of_r_pos(R) called by the user, with
\* R^2 = ClosestSq + n^2 (the sphere is crossed or touched) or
\* R^2 = ClosestSq - n (the sphere is missed)
RhoOfR(p, n, crossing) ==
    /\ AllIdle
    /\ LET R == IF crossing THEN ClosestSq(track) + n * n ELSE ClosestSq(track) - n
       IN  /\ R >= 0
           /\ out' = [out EXCEPT ![p] =
                        [op |-> "rho_of_r", R |-> R,
                         neg |-> rho_of_r_neg(track, R), pos |-> rho_of_r_pos(track, R)]]
    /\ UNCHANGED <<pexp, geom, ctor, track, binning, last_origin, pc, loc>>

\* one caller that recenters the track and asks for sphere crossings
NextRoots ==
    \/ \E D \in OriginSet : SetOrigin(1, D)
    \/ \E n \in 0..MaxRoot, crossing \in BOOLEAN : RhoOfR(1, n, crossing)

SpecRoots == Init /\ [][NextRoots]_vars

\* one caller, a hypothesis whose polar-angle bins straddle pi/2 or meet there
NextWide ==
    \/ \E b \in WideBinningSet : SetBinning(b)
    \/ \E D \in OriginSet : Call(1, D)
    \/ Step(1)

SpecWide == InitWide /\ [][NextWide]_vars

\* --------------------------------------- utils/geom.py: the binning tests

MaxNum == 11
BinStartSet == {0, 1}
BinStopSet == {1, 2, 4, 100}
PowerSet == {1, 2}

\* the values binned: edge i of bin_edges (d = 0), the float below it
\* (d = -1) and the float above it (d = 1); None where there is no such value
\* from start up to but not including stop
TestValue(i, d) ==
    IF geom = NoGeom \/ i > geom.num THEN None
    ELSE LET e == geom.bin_edges[i]
             x == IF d = 0 THEN e ELSE IF d = 1 THEN FlSucc(e) ELSE FlPred(e)
         IN  IF d # 0 /\ e.m = 0 THEN None
             ELSE IF FlLe(geom.start, x) /\ FlLt(x, geom.stop) THEN x
             ELSE None

\* no hypothesis is constructed: geom.py stands alone
InitBin ==
    /\ ctor = None
    /\ track = None
    /\ binning = None
    /\ last_origin = <<0, 0, 0, 0>>
    /\ pc = [p \in Procs |-> "idle"]
    /\ loc = [p \in Procs |-> NoLocals]
    /\ out = [p \in Procs |-> NoOutcome]
    /\ geom = NoGeom
    /\ pexp = NoPexp

\* test_linbin: kw and bin_edges
LinbinEdges(start, stop, num) ==
    /\ geom = NoGeom
    /\ start < stop
    /\ geom' = [test |-> "linbin", start |-> FlFromInt(start), stop |-> FlFromInt(stop),
                num |-> num, power |-> 1,
                bin_edges |-> linspace(FlFromInt(start), FlFromInt(stop), num),
                x |-> None, bins_ref |-> None, numba |-> None, numpy |-> None]
    /\ UNCHANGED <<pexp, ctor, track, binning, last_origin, pc, loc, out>>

\* test_linbin: one value x, its reference bin and the two implementations
Linbin(i, d) ==
    /\ geom.test = "linbin"
    /\ TestValue(i, d) # None
    /\ LET x == TestValue(i, d)
       IN  geom' = [geom EXCEPT
                      !.x = x,
                      !.bins_ref = digitize(x, geom.bin_edges) - 1,
                      !.numba = linbin_numba(x, geom.start, geom.stop, geom.num),
                      !.numpy = linbin_numpy(x, geom.start, geom.stop, geom.num)]
    /\ UNCHANGED <<pexp, ctor, track, binning, last_origin, pc, loc, out>>

\* test_powerbin: kw and bin_edges
PowerbinEdges(start, stop, num, power) ==
    /\ geom = NoGeom
    /\ start < stop
    /\ geom' = [test |-> "powerbin", start |-> FlFromInt(start), stop |-> FlFromInt(stop),
                num |-> num, power |-> power,
                bin_edges |-> powerspace(FlFromInt(start), FlFromInt(stop), num, power),
                x |-> None, bins_ref |-> None, numba |-> None, numpy |-> None]
    /\ UNCHANGED <<pexp, ctor, track, binning, last_origin, pc, loc, out>>

\* test_powerbin: one value x, its reference bin and the two implementations
Powerbin(i, d) ==
    /\ geom.test = "powerbin"
    /\ TestValue(i, d) # None
    /\ LET x == TestValue(i, d)
       IN  geom' = [geom EXCEPT
                      !.x = x,
                      !.bins_ref = digitize(x, geom.bin_edges) - 1,
                      !.numba = powerbin_numba(x, geom.start, geom.stop, geom.num, geom.power),
                      !.numpy = powerbin_numpy(x, geom.start, geom.stop, geom.num, geom.power)]
    /\ UNCHANGED <<pexp, ctor, track, binning, last_origin, pc, loc, out>>

NextBin ==
    \/ \E start \in BinStartSet, stop \in BinStopSet, num \in 2..MaxNum :
          LinbinEdges(start, stop, num)
    \/ \E i \in 1..MaxNum, d \in {0 - 1, 0, 1} : Linbin(i, d)
    \/ \E start \in BinStartSet, stop \in BinStopSet, num \in 2..MaxNum, power \in PowerSet :
          PowerbinEdges(start, stop, num, power)
    \/ \E i \in 1..MaxNum, d \in {0 - 1, 0, 1} : Powerbin(i, d)

SpecBin == InitBin /\ [][NextBin]_vars

\* ---------------------------------- tables/pexp_5d.py: the evaluator's call

\* no hypothesis is constructed: pexp_5d.py stands alone
InitPexp ==
    /\ ctor = None
    /\ track = None
    /\ binning = None
    /\ last_origin = <<0, 0, 0, 0>>
    /\ pc = [p \in Procs |-> "idle"]
    /\ loc = [p \in Procs |-> NoLocals]
    /\ out = [p \in Procs |-> NoOutcome]
    /\ geom = NoGeom
    /\ pexp = NoPexp

\* generate_pexp_5d_function(table, table_kind, compute_t_indep_exp,
\* use_directionality, ...)
Generate(table_kind, compute_t_indep_exp, use_directionality) ==
    /\ pexp = NoPexp
    /\ pexp' = [f |-> generate_pexp_5d_function(TableBinning, table_kind,
                                              compute_t_indep_exp, use_directionality),
                call |-> None]
    /\ UNCHANGED <<geom, ctor, track, binning, last_origin, pc, loc, out>>

\* pexp_5d(sources, hit_times, ...) up to its loop over the sources
CallPexp(sources, hit_times) ==
    /\ pexp.f # None /\ pexp.call = None
    /\ pexp' = [pexp EXCEPT !.call = [sources |-> sources, hit_times |-> hit_times, n |-> 1,
                                      lv |-> pexp_locals(pexp.f, hit_times)]]
    /\ UNCHANGED <<geom, ctor, track, binning, last_origin, pc, loc, out>>

\* one source of the loop
Source(u) ==
    /\ pexp.call # None
    /\ pexp.call.lv.status = "running"
    /\ pexp.call.n <= Len(pexp.call.sources)
    /\ pexp' = [pexp EXCEPT
                  !.call.lv = pexp_source(pexp.f, pexp.call.lv,
                                          pexp.call.sources[pexp.call.n], pexp.call.n,
                                          pexp.call.hit_times, u),
                  !.call.n = @ + 1]
    /\ UNCHANGED <<geom, ctor, track, binning, last_origin, pc, loc, out>>

\* lines 546-549 and 764-767
ReturnPexp ==
    /\ pexp.call # None
    /\ pexp.call.lv.status = "running"
    /\ pexp.call.n > Len(pexp.call.sources)
    /\ pexp' = [pexp EXCEPT !.call.lv.status = "returned"]
    /\ UNCHANGED <<geom, ctor, track, binning, last_origin, pc, loc, out>>

NextPexp ==
    \/ \E table_kind \in KindSet, compute_t_indep_exp \in BOOLEAN,
          use_directionality \in BOOLEAN :
          Generate(table_kind, compute_t_indep_exp, use_directionality)
    \/ \E sources \in SourcesSet, hit_times \in HitTimesSet : CallPexp(sources, hit_times)
    \/ \E u \in UndefinedOutcomes : Source(u)
    \/ ReturnPexp

SpecPexp == InitPexp /\ [][NextPexp]_vars

\* ------------------------------------------------------------------ properties

\* the track of the hypothesis built from arguments a, seen from origin D
TrackAt(a, D) ==
    [Construct(a) EXCEPT !.t_o = D[1], !.x_o = D[2], !.y_o = D[3], !.z_o = D[4]]

\* a get_z_matrix call of caller p that returned a matrix
Returned(p) == out[p].op = "get_z_matrix" /\ out[p].status = "returned"

\* a get_z_matrix call of caller p that ended, with a matrix or an exception
Ended(p) == out[p].op = "get_z_matrix" /\ out[p].status # "running"

TimeBins(bins) == 1..(Len(bins.t) - 1)

\* the length the track covers in the window [lo, hi]: c * (hi' - lo') for the
\* window clipped to [t0, t0 + dt], 0 when they do not meet
CoveredLength(self, lo, hi) ==
    LET a == Max2(lo, t0(self))
        b == Min2(hi, t0(self) + self.dt)
    IN  IF a < b THEN TimesC(b - a) ELSE 0

\* the track stays inside the union of the radius, polar and azimuth bins
StaysInside(self, bins) ==
    /\ bins.r[1] = 0
    /\ cr(point(self, t0(self))) < bins.r[Len(bins.r)]
    /\ cr(point(self, t0(self) + self.dt)) < bins.r[Len(bins.r)]
    /\ ThEq(bins.theta[1], Th0) /\ ThEq(bins.theta[Len(bins.theta)], ThPi)
    /\ PhEq(bins.phi[1], PhiZero) /\ PhEq(bins.phi[Len(bins.phi)], PhiTwoPi)

\* C1: for a track that stays inside the radius, polar and azimuth bins, the
\* cells of every time bin k of a returned matrix sum to c * (hi - lo), the
\* length the track covers in that time bin.
C1_Conservation ==
    \A p \in Procs :
        Returned(p) /\ StaysInside(TrackAt(ctor, out[p].D), out[p].bins) =>
            \A k \in TimeBins(out[p].bins) :
                TotalOfTimeBin(out[p].z, k)
                    = CoveredLength(TrackAt(ctor, out[p].D),
                                    out[p].bins.t[k], out[p].bins.t[k + 1])

\* the matrix z has no negative cell (and no NaN cell)
NonNegative(z) == \A idx \in DOMAIN z : IsFinite(z[idx]) /\ z[idx] >= 0

\* C2: every cell of a matrix get_z_matrix builds and returns is >= 0, and a
\* step of the assembly never lowers a cell: it only adds B - A with A <= B.
C2_NonNegativity ==
    /\ [](\A p \in Procs :
            /\ Returned(p) => NonNegative(out[p].z)
            /\ pc[p] = "loop" => NonNegative(loc[p].z))
    /\ [][\A p \in Procs :
            pc[p] = "loop" /\ pc'[p] = "loop" =>
                \A idx \in DOMAIN loc[p].z : loc'[p].z[idx] >= loc[p].z[idx]]_vars

\* some combination of intervals of the window has A > B
HasEmptyIntersection(iv) ==
    \E j \in DOMAIN iv.r_inter_pos, m \in DOMAIN iv.theta_inter_neg, i \in DOMAIN iv.phi_inter :
        \E r \in {iv.r_inter_neg[j], iv.r_inter_pos[j]} :
        \E th \in {iv.theta_inter_neg[m], iv.theta_inter_pos[m]} :
            /\ r # None /\ th # None /\ iv.phi_inter[i] # None
            /\ FGt(PyMax3(r[1], th[1], iv.phi_inter[i][1]),
                   PyMin3(r[2], th[2], iv.phi_inter[i][2]))

\* an assembly that has just filled a time bin in which some combination had
\* A > B, and whose matrix holds a positive cell
C2_Witness ==
    /\ pc[1] = "loop" /\ loc[1].k > 1
    /\ extent(track, binning.t[loc[1].k - 1], binning.t[loc[1].k]) # None
    /\ HasEmptyIntersection(
           intervals(track, binning, loc[1],
                     extent(track, binning.t[loc[1].k - 1], binning.t[loc[1].k])))
    /\ \E idx \in DOMAIN loc[1].z : loc[1].z[idx] > 0

\* C3: the cells of a returned matrix never sum to more than the length of
\* the track.
C3_NoOverCounting ==
    \A p \in Procs : Returned(p) => FLe(Total(out[p].z), ctor[7])

\* how a get_z_matrix call ended
Outcome(o) == Result(o.status, o.z)

\* C4: each of two calls that run at the same time on one hypothesis ends as
\* it would when run alone.
C4_ParallelIndependence ==
    \A p \in Procs :
        Ended(p) => Outcome(out[p]) = get_z_matrix(Construct(ctor), out[p].bins, out[p].D)

\* C5: the track depends only on the origin set last and the constructor
\* arguments, a get_z_matrix call ends as it would on a fresh hypothesis, and
\* setting the same origin again changes nothing.
C5_NoHistory ==
    /\ track = TrackAt(ctor, last_origin)
    /\ t0(track) = ctor[1] - last_origin[1]
    /\ x0(track) = ctor[2] - last_origin[2]
    /\ y0(track) = ctor[3] - last_origin[3]
    /\ z0(track) = ctor[4] - last_origin[4]
    /\ set_origin(track, last_origin[1], last_origin[2], last_origin[3], last_origin[4]) = track
    /\ Ended(1) =>
          Outcome(out[1]) = get_z_matrix(TrackAt(ctor, out[1].D), out[1].bins, out[1].D)

\* a call for an origin other than the one the constructor attached has
\* returned a matrix
C5_Witness ==
    /\ Returned(1)
    /\ out[1].D # <<0, 0, 0, 0>>
    /\ Total(out[1].z) > 0

\* fine is the edge sequence coarse with one more edge between two of its edges
InsertsOneEdge(coarse, fine) ==
    /\ Len(fine) = Len(coarse) + 1
    /\ \E i \in 2..Len(coarse) :
          \A j \in 1..Len(coarse) : coarse[j] = IF j < i THEN fine[j] ELSE fine[j + 1]

\* binning b2 is binning b with one more edge in one of its four sequences
Refines(b, b2) ==
    \/ InsertsOneEdge(b.t, b2.t) /\ b.r = b2.r /\ b.theta = b2.theta /\ b.phi = b2.phi
    \/ b.t = b2.t /\ InsertsOneEdge(b.r, b2.r) /\ b.theta = b2.theta /\ b.phi = b2.phi
    \/ b.t = b2.t /\ b.r = b2.r /\ InsertsOneEdge(b.theta, b2.theta) /\ b.phi = b2.phi
    \/ b.t = b2.t /\ b.r = b2.r /\ b.theta = b2.theta /\ InsertsOneEdge(b.phi, b2.phi)

\* C6: the matrix for a binning with one more edge in one of its four edge
\* sequences has the same sum of all cells, for the same track and origin.
C6_RefinementInsensitivity ==
    \A p \in Procs :
        Returned(p) =>
            \A b2 \in BinningSet :
                Refines(out[p].bins, b2)
                /\ get_z_matrix(Construct(ctor), b2, out[p].D).status = "returned" =>
                    Total(get_z_matrix(Construct(ctor), b2, out[p].D).z) = Total(out[p].z)

\* the denominator of rho in ts is zero as the floats compute it: its
\* cos(pi / 2) term vanishes too
ts_den_is_zero(self) ==
    /\ ts_den(self) = 0
    /\ TinyCos(self.theta) * (x0(self) * self.cosphi + y0(self) * self.sinphi) = 0

\* C7: a get_z_matrix call for a track whose ts has a zero denominator
\* returns a matrix: it raises nothing.
C7_ZeroDenominatorNeverFails ==
    \A p \in Procs :
        Ended(p) /\ out[p].bins # None /\ ts_den_is_zero(TrackAt(ctor, out[p].D)) =>
            out[p].status = "returned"

\* the track points along the polar axis and lies on it
OnAxis(self) == ThEq(self.theta, Th0) /\ x0(self) = 0 /\ y0(self) = 0

\* the azimuth bins that hold length in time bin k
AzimuthBinsUsed(z, k) == {idx[4] : idx \in {e \in DOMAIN z : e[1] = k /\ z[e] # 0}}

\* C8: a call for a track along the polar axis and on it returns a matrix
\* that holds, in every time bin the track covers, the whole covered length,
\* all of it in one azimuth bin.
C8_DegenerateAxis ==
    \A p \in Procs :
        Ended(p) /\ out[p].bins # None /\ OnAxis(TrackAt(ctor, out[p].D)) =>
            /\ out[p].status = "returned"
            /\ \A k \in TimeBins(out[p].bins) :
                  LET L == CoveredLength(TrackAt(ctor, out[p].D),
                                         out[p].bins.t[k], out[p].bins.t[k + 1])
                  IN  L > 0 => /\ TotalOfTimeBin(out[p].z, k) = L
                               /\ Cardinality(AzimuthBinsUsed(out[p].z, k)) = 1

\* between the times e[1] and e[2] the track crosses the half plane of
\* azimuth 0 (y = 0, x > 0): its azimuth sweeps through 0 / 2 pi
SweepsThroughZero(self, e) ==
    /\ point(self, e[1])[1] > 0 /\ point(self, e[2])[1] > 0
    /\ point(self, e[1])[2] * point(self, e[2])[2] < 0

\* the lengths of the parts of that sweep below and above azimuth 0
LengthBelow(self, e) ==
    LET ya == point(self, e[1])[2]
        yb == point(self, e[2])[2]
    IN  Quot(Abs(Min2(ya, yb)) * TimesC(e[2] - e[1]), Abs(ya) + Abs(yb))

LengthAbove(self, e) == TimesC(e[2] - e[1]) - LengthBelow(self, e)

\* the ends of the sweep: the azimuth it starts from (below 2 pi) and the
\* azimuth it ends at (above 0)
SweepStart(self, e) ==
    IF point(self, e[1])[2] < 0 THEN cphi(point(self, e[1])) ELSE cphi(point(self, e[2]))

SweepEnd(self, e) ==
    IF point(self, e[1])[2] < 0 THEN cphi(point(self, e[2])) ELSE cphi(point(self, e[1]))

\* the length time bin k holds in azimuth bin i
AzimuthDeposit(z, k, i) == SumOver(z, {idx \in DOMAIN z : idx[1] = k /\ idx[4] = i})

\* C9: when the azimuth of the track sweeps through 0 / 2 pi in a time bin,
\* from the last azimuth bin into the first, the last azimuth bin holds the
\* length of the part below 2 pi, the first holds the length of the part
\* above 0, and the azimuth bins between them hold nothing; one bin that is
\* both holds both parts.
C9_AzimuthWraparound ==
    \A p \in Procs :
        Returned(p) =>
            LET self == TrackAt(ctor, out[p].D)
                bins == out[p].bins
                n == Len(bins.phi) - 1
            IN  \A k \in TimeBins(bins) :
                    LET e == extent(self, bins.t[k], bins.t[k + 1])
                    IN  /\ e # None
                        /\ SweepsThroughZero(self, e)
                        /\ PhLe(bins.phi[n], SweepStart(self, e))
                        /\ PhLe(SweepEnd(self, e), bins.phi[2])
                        => IF n = 1
                           THEN AzimuthDeposit(out[p].z, k, 1) = TimesC(e[2] - e[1])
                           ELSE /\ AzimuthDeposit(out[p].z, k, n) = LengthBelow(self, e)
                                /\ AzimuthDeposit(out[p].z, k, 1) = LengthAbove(self, e)
                                /\ \A i \in 2..(n - 1) : AzimuthDeposit(out[p].z, k, i) = 0

\* the direction vector of the track built from arguments a
Direction(a) ==
    <<SinTheta(a[6]) * CosPhi(a[5]), SinTheta(a[6]) * SinPhi(a[5]), CosTheta(a[6])>>

\* C10: point(t) raises AssertionError exactly when t < t0 or t > t0 + dt,
\* with t0 the vertex time minus the time of the attached origin; otherwise
\* it returns (x0, y0, z0) + c * (t - t0) * direction; a call of point, failing
\* or not, leaves the track as it was.
C10_PointAssertion ==
    /\ [](out[1].op = "point" =>
            LET t == out[1].t
                t_0 == ctor[1] - last_origin[1]
                rho == TimesC(t - t_0)
            IN  IF t < t_0 \/ t > t_0 + c_den * ctor[7]
                THEN out[1].status = "AssertionError"
                ELSE /\ out[1].status = "returned"
                     /\ out[1].value
                          = <<ctor[2] - last_origin[2] + rho * Direction(ctor)[1],
                              ctor[3] - last_origin[3] + rho * Direction(ctor)[2],
                              ctor[4] - last_origin[4] + rho * Direction(ctor)[3]>>)
    /\ [][out'[1] # out[1] /\ out'[1].op = "point" =>
            track' = track /\ last_origin' = last_origin]_vars

\* point has raised for a time that the track would cover from the origin
\* the constructor attached
C10_Witness ==
    /\ out[1].op = "point" /\ out[1].status = "AssertionError"
    /\ out[1].t >= ctor[1] /\ out[1].t <= ctor[1] + c_den * ctor[7]

\* C11: extent(t_low, t_high) is None exactly when the window and the time
\* range [t0, t0 + dt] of the track are disjoint; otherwise it is the pair
\* (max(t_low, t0), min(t_high, t0 + dt)), which lies in the window and in
\* the time range, lower end first.
C11_Extent ==
    out[1].op = "extent" =>
        LET lo == out[1].t_low
            hi == out[1].t_high
            t_0 == ctor[1] - last_origin[1]
            t_1 == t_0 + c_den * ctor[7]
            v == out[1].value
        IN  IF hi < t_0 \/ lo > t_1
            THEN v = None
            ELSE /\ v # None
                 /\ v[1] = (IF lo > t_0 THEN lo ELSE t_0)
                 /\ v[2] = (IF hi < t_1 THEN hi ELSE t_1)
                 /\ t_0 <= v[1] /\ v[1] <= v[2] /\ v[2] <= t_1
                 /\ lo <= v[1] /\ v[2] <= hi

\* extent has returned a zero-width pair for a window that touches the time
\* range at one instant
C11_Witness ==
    /\ out[1].op = "extent" /\ out[1].value # None
    /\ out[1].value[1] = out[1].value[2]
    /\ out[1].t_low < out[1].t_high
    /\ last_origin # <<0, 0, 0, 0>>

\* edge sequences that are not ascending, and the empty edge sequence
TEdgesUnsorted == <<0, 60, 30, 100>>
REdgesUnsorted == <<0, 25, 9, 10000>>
ThetaEdgesUnsorted == <<Th0, ThPi, ThetaHalfPi>>
PhiEdgesUnsorted == <<PhiZero, PhHalfTurn, PhQuarter, PhiTwoPi>>
NoEdges == <<>>

MalformedSet ==
    {Bins(TEdgesUnsorted, REdges, ThetaEdges, PhiEdges),
     Bins(TEdges, REdgesUnsorted, ThetaEdges, PhiEdges),
     Bins(TEdges, REdges, ThetaEdgesUnsorted, PhiEdges),
     Bins(TEdges, REdges, ThetaEdges, PhiEdgesUnsorted),
     Bins(NoEdges, REdges, ThetaEdges, PhiEdges),
     Bins(TEdges, REdges, ThetaEdges, NoEdges)}

\* one caller that sets malformed bin edges
NextMalformed ==
    \/ \E b \in MalformedSet : SetBinning(b)
    \/ \E D \in OriginSet : Call(1, D)
    \/ Step(1)

SpecMalformed == Init /\ [][NextMalformed]_vars

\* an edge sequence is empty or descends somewhere
Descends(bins) ==
    \/ \E i \in 1..(Len(bins.t) - 1) : bins.t[i] > bins.t[i + 1]
    \/ \E i \in 1..(Len(bins.r) - 1) : bins.r[i] > bins.r[i + 1]
    \/ \E i \in 1..(Len(bins.theta) - 1) : ThLt(bins.theta[i + 1], bins.theta[i])
    \/ \E i \in 1..(Len(bins.phi) - 1) : PhLt(bins.phi[i + 1], bins.phi[i])

Malformed(bins) == negative_dimension(bins) \/ Descends(bins)

\* C12: a get_z_matrix call with malformed bin edges (an empty or a
\* non-monotonic edge sequence) raises before any time bin is processed and
\* returns no matrix.
C12_MalformedEdgesRejected ==
    /\ pc[1] = "loop" => ~Malformed(binning)
    /\ Ended(1) /\ out[1].bins # None /\ Malformed(out[1].bins) =>
          out[1].status \in {"TypeError", "ValueError"}

\* C13: set_origin and get_z_matrix change the attached origin only: vertex,
\* direction, cached sines and cosines, length and dt stay as constructed, no
\* step that sets an origin changes the stored bin edges, and t0, x0, y0, z0
\* are the vertex minus the origin set last.
C13_OnlyOriginChanges ==
    /\ [](/\ [track EXCEPT !.t_o = 0, !.x_o = 0, !.y_o = 0, !.z_o = 0] = Construct(ctor)
          /\ <<track.t_o, track.x_o, track.y_o, track.z_o>> = last_origin
          /\ <<t0(track), x0(track), y0(track), z0(track)>>
                = <<ctor[1] - last_origin[1], ctor[2] - last_origin[2],
                    ctor[3] - last_origin[3], ctor[4] - last_origin[4]>>)
    /\ [][track' # track => binning' = binning]_vars

\* a get_z_matrix call has moved the origin in space, with bin edges stored
C13_Witness ==
    /\ pc[1] = "tb" /\ binning # None
    /\ track.y_o # 0 /\ y0(track) # track.y_v

\* the binnings of the hypothesis whose first matrix a caller keeps
KeptBinningSet ==
    {Bins(TEdges, REdges, ThetaEdges, PhiEdges),
     Bins(TEdgesFine, REdges, ThetaEdges, PhiEdgesHalf)}

\* the one call of caller 1, who keeps the matrix it returns
FirstCall(D) == out[1] = NoOutcome /\ binning # None /\ Call(1, D)

\* a call of caller 2 after the call of caller 1
LaterCall(D) == out[1] # NoOutcome /\ Call(2, D)

\* caller 1 makes one call and keeps what it returned, while caller 2 goes
\* on using the same hypothesis; no two calls run at the same time
NextKept ==
    \/ \E b \in KeptBinningSet : SetBinning(b)
    \/ \E D \in OriginSet : FirstCall(D)
    \/ \E D \in OriginSet : SetOrigin(2, D)
    \/ \E D \in OriginSet : LaterCall(D)
    \/ Step(1)
    \/ Step(2)

SpecKept == Init /\ [][NextKept]_vars

\* C14: the matrix a call starts from is all zero and has one cell per
\* combination of a time, a radius, a polar-angle and an azimuth bin of the
\* stored edges, and a matrix that a call has returned is never changed by
\* a later set_origin, set_binning or get_z_matrix.
C14_OwnMatrix ==
    /\ [](\A p \in Procs :
            pc[p] = "loop" /\ loc[p].k = 1 =>
                /\ DOMAIN loc[p].z
                      = (1..(Len(binning.t) - 1)) \X (1..(Len(binning.r) - 1))
                        \X (1..(Len(binning.theta) - 1)) \X (1..(Len(binning.phi) - 1))
                /\ \A idx \in DOMAIN loc[p].z : loc[p].z[idx] = 0)
    /\ [][Returned(1) => out'[1] = out[1]]_vars

\* caller 1 holds a matrix with length in it while a later call, for
\* another origin and other bin edges, is filling its own
C14_Witness ==
    /\ Returned(1) /\ Total(out[1].z) > 0
    /\ pc[2] = "loop" /\ loc[2].k > 1
    /\ \E idx \in DOMAIN loc[2].z : loc[2].z[idx] > 0
    /\ binning # out[1].bins /\ last_origin # out[1].D

\* C15: whenever test_linbin has binned a value x with start <= x < stop,
\* _linbin_numba and _linbin_numpy both return the index of the bin of the
\* equally spaced edges that holds x, np.digitize(x, bin_edges) - 1.
C15_LinbinAgrees ==
    geom.test = "linbin" /\ geom.x # None =>
        /\ geom.numba = geom.numpy
        /\ geom.numba = geom.bins_ref
        /\ geom.numba \in 0..(geom.num - 2)
        /\ FlLe(geom.bin_edges[geom.numba + 1], geom.x)
        /\ FlLt(geom.x, geom.bin_edges[geom.numba + 2])

\* C16: whenever test_powerbin has binned a value x with start <= x < stop,
\* _powerbin_numba and _powerbin_numpy both return the index of the bin of
\* powerspace(start, stop, num, power) that holds x,
\* np.digitize(x, bin_edges) - 1.
C16_PowerbinAgrees ==
    geom.test = "powerbin" /\ geom.x # None =>
        /\ geom.numba = geom.bins_ref
        /\ geom.numpy = geom.bins_ref

\* the three intervals of one combination for one cell are all present and
\* max(lows) <= min(highs)
Counts(r, theta, phi) ==
    /\ r # None /\ theta # None /\ phi # None
    /\ FLe(PyMax3(r[1], theta[1], phi[1]), PyMin3(r[2], theta[2], phi[2]))

\* min(highs) - max(lows) of a combination that counts, otherwise nothing
Contribution(r, theta, phi) ==
    IF Counts(r, theta, phi)
    THEN FSub(PyMin3(r[2], theta[2], phi[2]), PyMax3(r[1], theta[1], phi[1]))
    ELSE 0

\* the interval lists of time bin k of the finished call of caller p
IntervalsOf(p, k) ==
    LET self == TrackAt(ctor, out[p].D)
        bins == out[p].bins
    IN  intervals(self, bins, locals(self), extent(self, bins.t[k], bins.t[k + 1]))

WindowOf(p, k) ==
    extent(TrackAt(ctor, out[p].D), out[p].bins.t[k], out[p].bins.t[k + 1])

\* C17: in a returned matrix, cell (k, j, m, i) is the sum over the four
\* combinations (radius list neg/pos) x (polar-angle list neg/pos) of
\* min(highs) - max(lows) of the intervals of radius bin j, polar-angle bin m
\* and azimuth bin i in time bin k, counting only the combinations whose three
\* intervals are present with max(lows) <= min(highs).
C17_AccumulationRule ==
    Returned(1) =>
        \A idx \in DOMAIN out[1].z :
            LET k == idx[1]
                j == idx[2]
                m == idx[3]
                i == idx[4]
                iv == IntervalsOf(1, k)
            IN  out[1].z[idx] =
                  IF WindowOf(1, k) = None THEN 0
                  ELSE FAdd(FAdd(Contribution(iv.r_inter_neg[j], iv.theta_inter_neg[m], iv.phi_inter[i]),
                                 Contribution(iv.r_inter_pos[j], iv.theta_inter_neg[m], iv.phi_inter[i])),
                            FAdd(Contribution(iv.r_inter_neg[j], iv.theta_inter_pos[m], iv.phi_inter[i]),
                                 Contribution(iv.r_inter_pos[j], iv.theta_inter_pos[m], iv.phi_inter[i])))

\* a returned matrix with a cell that two combinations add a length to
C17_Witness ==
    /\ Returned(1)
    /\ \E idx \in DOMAIN out[1].z :
          /\ WindowOf(1, idx[1]) # None
          /\ LET iv == IntervalsOf(1, idx[1])
                 phi == iv.phi_inter[idx[4]]
                 S == {c \in {<<iv.r_inter_neg, iv.theta_inter_neg>>, <<iv.r_inter_pos, iv.theta_inter_neg>>,
                              <<iv.r_inter_neg, iv.theta_inter_pos>>, <<iv.r_inter_pos, iv.theta_inter_pos>>} :
                           Contribution(c[1][idx[2]], c[2][idx[3]], phi) # 0}
             IN  Cardinality(S) >= 2

\* the orders in which the time bins 1..n can be processed
Orders(n) ==
    {o \in [1..n -> 1..n] : \A a, b \in 1..n : a # b => o[a] # o[b]}

\* the loop over the time bins taken in the order o, from position a on
RECURSIVE fill_in_order(_, _, _, _, _, _)
fill_in_order(self, bins, lv, z, o, a) ==
    IF a > Len(bins.t) - 1 THEN z
    ELSE fill_in_order(self, bins, lv, fill_time_bin(self, bins, lv, z, o[a]), o, a + 1)

\* caller p is in the loop over the time bins and takes one pass of it
Pass(p) == pc[p] = "loop" /\ pc'[p] = "loop" /\ loc'[p].k = loc[p].k + 1

\* C18: a pass of the loop for time bin k changes only the cells of row k, and
\* no cell when the window of bin k does not overlap the track's time range;
\* tb, ts and the inflection values are those computed before the loop and do
\* not change during it; the returned matrix is the one the passes give in
\* every order of the time bins.
C18_TimeBinsIndependent ==
    /\ [][\A p \in Procs : Pass(p) =>
            /\ \A idx \in DOMAIN loc[p].z :
                  idx[1] # loc[p].k => loc'[p].z[idx] = loc[p].z[idx]
            /\ extent(track, binning.t[loc[p].k], binning.t[loc[p].k + 1]) = None =>
                  loc'[p].z = loc[p].z
            /\ loc'[p].tb = loc[p].tb /\ loc'[p].ts = loc[p].ts
            /\ loc'[p].r_inflection_point = loc[p].r_inflection_point
            /\ loc'[p].theta_inflection_point = loc[p].theta_inflection_point]_vars
    /\ [](\A p \in Procs : pc[p] = "loop" =>
            loc[p].tb = tb(track) /\ loc[p].ts = ts(track))
    /\ [](Returned(1) =>
            LET self == TrackAt(ctor, out[1].D)
                bins == out[1].bins
            IN  \A o \in Orders(Len(bins.t) - 1) :
                   out[1].z = fill_in_order(self, bins, locals(self), zeros(bins), o, 1))

\* a returned matrix with lengths in two rows and a time bin whose window does
\* not overlap the track's time range
C18_Witness ==
    /\ Returned(1)
    /\ \E k \in 1..(Len(out[1].bins.t) - 1) : WindowOf(1, k) = None
    /\ \E a, b \in DOMAIN out[1].z : a[1] # b[1] /\ out[1].z[a] # 0 /\ out[1].z[b] # 0

\* the targets get_z_matrix passes to the correlators in time bin k of the
\* finished call of caller p (lines 332-359)
TargetsOf(p, k) ==
    LET self == TrackAt(ctor, out[p].D)
        lv == locals(self)
        w == WindowOf(p, k)
    IN  [r |-> track_r_extents(self, lv, w),
         theta |-> track_theta_extents(self, lv, w),
         phi |-> track_phi_extent(self, w)]

\* some value of the radius target t lies in [b0, b1)
RadiusInBin(b0, b1, t) == Min2(t[1], t[2]) < b1 /\ b0 <= Max2(t[1], t[2])

\* some value of the polar-angle target t lies in [b0, b1)
PolarInBin(b0, b1, t) ==
    t # None /\ ThLt(ThMin(t[1], t[2]), b1) /\ ThLe(b0, ThMax(t[1], t[2]))

\* some value of the azimuth target t lies in [b0, b1): the target is
\* [t[1], t[2]], or [t[1], 2 pi) and [0, t[2]] when it wraps
AzimuthInBin(b0, b1, t) ==
    IF PhLe(t[1], t[2]) THEN PhLt(t[1], b1) /\ PhLe(b0, t[2])
    ELSE PhLt(t[1], b1) \/ PhLe(b0, t[2])

\* the bins of an interval list that got an interval
Assigned(inter) == {i \in DOMAIN inter : inter[i] # None}

HalfOpenRadius(p, k) ==
    LET e == out[p].bins.r
        t == TargetsOf(p, k).r
        iv == IntervalsOf(p, k)
    IN  \A i \in 1..(Len(e) - 1) :
           /\ ~RadiusInBin(e[i], e[i + 1], t.neg) => iv.r_inter_neg[i] = None
           /\ ~RadiusInBin(e[i], e[i + 1], t.pos) => iv.r_inter_pos[i] = None

HalfOpenPolar(p, k) ==
    LET e == out[p].bins.theta
        t == TargetsOf(p, k).theta
        iv == IntervalsOf(p, k)
    IN  /\ \A i \in 1..(Len(e) - 1) :
              /\ ~PolarInBin(e[i], e[i + 1], t.neg) => iv.theta_inter_neg[i] = None
              /\ ~PolarInBin(e[i], e[i + 1], t.pos) => iv.theta_inter_pos[i] = None
        /\ t.neg # None /\ ThEq(t.neg[1], t.neg[2]) =>
              Cardinality(Assigned(iv.theta_inter_neg)) <= 1
        /\ t.pos # None /\ ThEq(t.pos[1], t.pos[2]) =>
              Cardinality(Assigned(iv.theta_inter_pos)) <= 1

HalfOpenAzimuth(p, k) ==
    LET e == out[p].bins.phi
        t == TargetsOf(p, k).phi
        iv == IntervalsOf(p, k)
    IN  /\ \A i \in 1..(Len(e) - 1) :
              ~AzimuthInBin(e[i], e[i + 1], t) => iv.phi_inter[i] = None
        /\ PhEq(t[1], t[2]) => Cardinality(Assigned(iv.phi_inter)) <= 1

\* C19: in every time bin of a call that returned, each of correlate_r,
\* correlate_theta and correlate_phi gives None for every bin whose half-open
\* range [edges[i], edges[i+1]) holds no value of the target, and a zero-width
\* target gets an interval in at most one bin.
C19_HalfOpenBins ==
    Returned(1) =>
        \A k \in 1..(Len(out[1].bins.t) - 1) :
            WindowOf(1, k) # None =>
                HalfOpenRadius(1, k) /\ HalfOpenPolar(1, k) /\ HalfOpenAzimuth(1, k)

\* the along-track range of the window of time bin k of the finished call of
\* caller p, measured from the recentered vertex
WindowRho(p, k) ==
    LET w == WindowOf(p, k)
        t_0 == t0(TrackAt(ctor, out[p].D))
    IN  <<TimesC(w[1] - t_0), TimesC(w[2] - t_0)>>

\* C20: in every time bin of a call that returned, a zero-width azimuth or
\* polar-angle target that lies in a bin gets, for that bin, the window's
\* along-track range measured from the recentered vertex,
\* [c * (lo - t0), c * (hi - t0)].
C20_DegenerateTargetRange ==
    Returned(1) =>
        \A k \in 1..(Len(out[1].bins.t) - 1) :
            WindowOf(1, k) # None =>
                LET bins == out[1].bins
                    t == TargetsOf(1, k)
                    iv == IntervalsOf(1, k)
                IN  /\ \A i \in 1..(Len(bins.phi) - 1) :
                          /\ PhEq(t.phi[1], t.phi[2])
                          /\ PhLe(bins.phi[i], t.phi[1]) /\ PhLt(t.phi[1], bins.phi[i + 1])
                          => iv.phi_inter[i] = WindowRho(1, k)
                    /\ \A i \in 1..(Len(bins.theta) - 1) :
                          /\ /\ t.theta.neg # None
                             /\ ThEq(t.theta.neg[1], t.theta.neg[2])
                             /\ ThLe(bins.theta[i], t.theta.neg[1])
                             /\ ThLt(t.theta.neg[1], bins.theta[i + 1])
                             => iv.theta_inter_neg[i] = WindowRho(1, k)
                          /\ /\ t.theta.pos # None
                             /\ ThEq(t.theta.pos[1], t.theta.pos[2])
                             /\ ThLe(bins.theta[i], t.theta.pos[1])
                             /\ ThLt(t.theta.pos[1], bins.theta[i + 1])
                             => iv.theta_inter_pos[i] = WindowRho(1, k)

\* the azimuth target t wraps through 0 / 2 pi
Wraps(t) == PhLt(t[2], t[1])

\* the bin [b0, b1) holds azimuths of [0, t[2]], of [t[1], 2 pi)
OverlapsAfterZero(b0, b1, t) == PhLe(b0, t[2])
OverlapsBeforeTwoPi(b0, b1, t) == PhLt(t[1], b1)

\* the along-track interval of the bin's overlap with [0, t[2]]
AfterZeroInterval(self, b0, b1, t) ==
    Sorted2(rho_of_phi(self, PhMax(b0, PhiZero)), rho_of_phi(self, PhMin(b1, t[2])))

\* the along-track interval of the bin's overlap with [t[1], 2 pi)
BeforeTwoPiInterval(self, b0, b1, t) ==
    Sorted2(rho_of_phi(self, PhMax(b0, t[1])), rho_of_phi(self, PhMin(b1, PhiTwoPi)))

\* what a wrapping target gives bin [b0, b1)
SplitPerBin(self, b0, b1, t, inter) ==
    LET lo == AfterZeroInterval(self, b0, b1, t)
        hi == BeforeTwoPiInterval(self, b0, b1, t)
    IN  IF OverlapsAfterZero(b0, b1, t) /\ OverlapsBeforeTwoPi(b0, b1, t)
        THEN inter # None /\ inter # lo /\ inter # hi
        ELSE IF OverlapsAfterZero(b0, b1, t) THEN inter = lo
        ELSE IF OverlapsBeforeTwoPi(b0, b1, t) THEN inter = hi
        ELSE inter = None

\* C21: in every time bin of a call that returned, when the azimuth target
\* wraps (first endpoint > second endpoint), a bin that overlaps only
\* [first, 2 pi) or only [0, second] gets the interval of that overlap, a bin
\* that overlaps both does not get the interval of only one of them, and a bin
\* that overlaps neither gets None.
C21_WrappingTargetSplit ==
    Returned(1) =>
        \A k \in 1..(Len(out[1].bins.t) - 1) :
            WindowOf(1, k) # None /\ Wraps(TargetsOf(1, k).phi) =>
                LET e == out[1].bins.phi
                IN  \A i \in 1..(Len(e) - 1) :
                       SplitPerBin(TrackAt(ctor, out[1].D), e[i], e[i + 1],
                                   TargetsOf(1, k).phi, IntervalsOf(1, k).phi_inter[i])

\* the azimuths of the two ends of the window of time bin k
EndAzimuths(p, k) ==
    LET self == TrackAt(ctor, out[p].D)
        w == WindowOf(p, k)
    IN  <<cphi(point(self, w[1])), cphi(point(self, w[2]))>>

\* C22: in every time bin of a call that returned, the azimuth target is made
\* of the azimuths of the two window ends, in the order in which going from
\* the first to the second in increasing azimuth subtends at most pi: ascending
\* when they differ by at most pi, (larger, smaller) when by more.
C22_AzimuthOrdering ==
    Returned(1) =>
        \A k \in 1..(Len(out[1].bins.t) - 1) :
            WindowOf(1, k) # None =>
                LET t == TargetsOf(1, k).phi
                    a == EndAzimuths(1, k)
                IN  /\ t = a \/ t = <<a[2], a[1]>>
                    /\ PhiCross(t[1], t[2]) >= 0
                    /\ PhiCross(t[1], t[2]) = 0 => PhLe(t[1], t[2])
                    /\ PhLt(t[2], t[1]) <=>
                          PhiCross(PhMin(a[1], a[2]), PhMax(a[1], a[2])) < 0

\* a returned call with a window whose azimuth target wraps and a window whose
\* target ascends over a non-zero angle
C22_Witness ==
    /\ Returned(1)
    /\ \E k \in 1..(Len(out[1].bins.t) - 1) :
          WindowOf(1, k) # None /\ Wraps(TargetsOf(1, k).phi)
    /\ \E k \in 1..(Len(out[1].bins.t) - 1) :
          WindowOf(1, k) # None /\ PhLt(TargetsOf(1, k).phi[1], TargetsOf(1, k).phi[2])

\* the radius targets of a window w: 'pos' the part of the window before tb,
\* 'neg' the part after it, [0, 0] for an empty part
TaggedRadius(self, w) ==
    LET e0 == cr(point(self, w[1]))
        e1 == cr(point(self, w[2]))
        rb == cr(point(self, tb(self)))
    IN  IF tb(self) <= w[1] THEN [pos |-> <<0, 0>>, neg |-> Sorted2(e0, e1)]
        ELSE IF tb(self) >= w[2] THEN [pos |-> Sorted2(e0, e1), neg |-> <<0, 0>>]
        ELSE [pos |-> Sorted2(e0, rb), neg |-> Sorted2(rb, e1)]

\* the polar-angle targets of a window w: 'pos' the part of the window before
\* ts, 'neg' the part after it, None for an empty part
TaggedPolar(self, w) ==
    LET e0 == ctheta(point(self, w[1]))
        e1 == ctheta(point(self, w[2]))
    IN  IF FLe(ts(self), w[1]) THEN [pos |-> None, neg |-> <<e0, e1>>]
        ELSE IF FGe(ts(self), w[2]) THEN [pos |-> <<e0, e1>>, neg |-> None]
        ELSE [pos |-> <<e0, ctheta(point(self, ts(self)))>>,
              neg |-> <<ctheta(point(self, ts(self))), e1>>]

\* C23: in every time bin of a call that returned, for radius (relative to tb)
\* and for polar angle (relative to ts), the 'pos' target is the part of the
\* window before the extremum and the 'neg' target the part after it, whether
\* the extremum lies strictly inside the window or not.
C23_BranchTagging ==
    Returned(1) =>
        \A k \in 1..(Len(out[1].bins.t) - 1) :
            WindowOf(1, k) # None =>
                /\ TargetsOf(1, k).r = TaggedRadius(TrackAt(ctor, out[1].D), WindowOf(1, k))
                /\ TargetsOf(1, k).theta = TaggedPolar(TrackAt(ctor, out[1].D), WindowOf(1, k))

\* the clipped sub-range of target t in bin (b0, b1)
Clipped(b0, b1, t) == <<Max2(b0, t[1]), Min2(b1, t[2])>>

\* the interval of the clipped sub-range s taken with the negative root, with
\* the positive root
WithNegativeRoot(self, s) == Sorted2(rho_of_r_neg(self, s[1]), rho_of_r_neg(self, s[2]))
WithPositiveRoot(self, s) == Sorted2(rho_of_r_pos(self, s[1]), rho_of_r_pos(self, s[2]))

\* correlate_r takes, in bin (b0, b1), the negative root when the clipped
\* sub-range is ascending-or-equal and pos is TRUE or descending and pos is
\* FALSE, the positive root otherwise
RootRule(self, b0, b1, t, pos) ==
    LET s == Clipped(b0, b1, t)
        inter == correlate_r_bin(self, b0, b1, t, pos)
    IN  inter # None =>
           inter = IF (s[1] <= s[2]) = pos THEN WithNegativeRoot(self, s)
                   ELSE WithPositiveRoot(self, s)

\* the along-track distance of the closest approach
RhoClosest(self) == TimesC(tb(self) - t0(self))

\* C24: correlate_r takes the negative root for an ascending-or-equal clipped
\* sub-range with pos TRUE and for a descending one with pos FALSE, the
\* positive root otherwise (checked on the targets of every window and on
\* their reversals); in every time bin of a call that returned the radius
\* targets are sorted, no clipped sub-range of an overlapping bin descends,
\* the intervals of the part before tb (pos TRUE) are taken with the root at
\* or before closest approach and those of the part after tb with the root at
\* or after it.
C24_RadiusRoot ==
    Returned(1) =>
        \A k \in 1..(Len(out[1].bins.t) - 1) :
            WindowOf(1, k) # None =>
                LET self == TrackAt(ctor, out[1].D)
                    e == out[1].bins.r
                    t == TargetsOf(1, k).r
                    iv == IntervalsOf(1, k)
                IN  /\ t.pos[1] <= t.pos[2] /\ t.neg[1] <= t.neg[2]
                    /\ \A i \in 1..(Len(e) - 1) :
                          /\ \A u \in {t.pos, t.neg, <<t.pos[2], t.pos[1]>>, <<t.neg[2], t.neg[1]>>} :
                                \A pos \in BOOLEAN : RootRule(self, e[i], e[i + 1], u, pos)
                          /\ iv.r_inter_pos[i] # None =>
                                /\ Clipped(e[i], e[i + 1], t.pos)[1] <= Clipped(e[i], e[i + 1], t.pos)[2]
                                /\ iv.r_inter_pos[i] = WithNegativeRoot(self, Clipped(e[i], e[i + 1], t.pos))
                                /\ iv.r_inter_pos[i][2] <= RhoClosest(self)
                          /\ iv.r_inter_neg[i] # None =>
                                /\ Clipped(e[i], e[i + 1], t.neg)[1] <= Clipped(e[i], e[i + 1], t.neg)[2]
                                /\ iv.r_inter_neg[i] = WithPositiveRoot(self, Clipped(e[i], e[i + 1], t.neg))
                                /\ iv.r_inter_neg[i][1] >= RhoClosest(self)

\* a returned call with a window that holds tb: a bin with an interval of
\* non-zero width on each radius branch, and a reversed target whose clipped
\* sub-range descends in an overlapping bin
C24_Witness ==
    /\ Returned(1)
    /\ \E k \in 1..(Len(out[1].bins.t) - 1) :
          /\ WindowOf(1, k) # None
          /\ LET e == out[1].bins.r
                 t == TargetsOf(1, k).r
                 iv == IntervalsOf(1, k)
             IN  /\ \E i \in 1..(Len(e) - 1) :
                       iv.r_inter_pos[i] # None /\ iv.r_inter_pos[i][1] < iv.r_inter_pos[i][2]
                 /\ \E i \in 1..(Len(e) - 1) :
                       iv.r_inter_neg[i] # None /\ iv.r_inter_neg[i][1] < iv.r_inter_neg[i][2]
                 /\ \E i \in 1..(Len(e) - 1) :
                       /\ correlate_r_bin(TrackAt(ctor, out[1].D), e[i], e[i + 1],
                                          <<t.pos[2], t.pos[1]>>, TRUE) # None
                       /\ Clipped(e[i], e[i + 1], <<t.pos[2], t.pos[1]>>)[1]
                             > Clipped(e[i], e[i + 1], <<t.pos[2], t.pos[1]>>)[2]

\* the root correlate_theta takes in a bin with lower edge b0: rho_of_theta_pos
\* below pi/2 and rho_of_theta_neg from pi/2 on for an ascending target, the
\* reverse for a descending one
PolarRoot(self, b0, T, ascending) ==
    IF ThLt(b0, ThetaHalfPi) = ascending THEN rho_of_theta_pos(self, T)
    ELSE rho_of_theta_neg(self, T)

\* the interval of a non-zero-width target t in bin (b0, b1) by that rule
PolarRuleInterval(self, b0, b1, t) ==
    LET val_low == ThMax(b0, ThMin(t[1], t[2]))
        val_high == ThMin(b1, ThMax(t[1], t[2]))
    IN  Sorted2(PolarRoot(self, b0, val_low, ThLt(t[1], t[2])),
                PolarRoot(self, b0, val_high, ThLt(t[1], t[2])))

PolarRootRule(self, e, t, inter) ==
    t # None /\ ~ThEq(t[1], t[2]) =>
        \A i \in 1..(Len(e) - 1) :
            inter[i] # None => inter[i] = PolarRuleInterval(self, e[i], e[i + 1], t)

\* C25: in every time bin of a call that returned, every interval
\* correlate_theta gives a bin for a target of non-zero width is made of the
\* values of one root at both ends of the clipped sub-range: rho_of_theta_pos
\* when the bin's lower edge is below pi/2 and the target ascends, or the edge
\* is at or above pi/2 and the target descends, rho_of_theta_neg otherwise.
C25_PolarRoot ==
    Returned(1) =>
        \A k \in 1..(Len(out[1].bins.t) - 1) :
            WindowOf(1, k) # None =>
                /\ PolarRootRule(TrackAt(ctor, out[1].D), out[1].bins.theta,
                                 TargetsOf(1, k).theta.neg, IntervalsOf(1, k).theta_inter_neg)
                /\ PolarRootRule(TrackAt(ctor, out[1].D), out[1].bins.theta,
                                 TargetsOf(1, k).theta.pos, IntervalsOf(1, k).theta_inter_pos)

\* the target t of non-zero width got an interval in a bin of e that satisfies
\* the condition Q(b0, b1, t)
GotInterval(e, t, inter, Q(_, _, _)) ==
    /\ t # None /\ ~ThEq(t[1], t[2])
    /\ \E i \in 1..(Len(e) - 1) : inter[i] # None /\ Q(e[i], e[i + 1], t)

\* the bin straddles pi/2 and so does the target
Straddles(b0, b1, t) ==
    /\ ThLt(b0, ThetaHalfPi) /\ ThLt(ThetaHalfPi, b1)
    /\ ThLt(ThMin(t[1], t[2]), ThetaHalfPi) /\ ThLt(ThetaHalfPi, ThMax(t[1], t[2]))

\* some window of the finished call of caller 1 has a polar-angle interval in
\* a bin with Q
SomeWindow(Q(_, _, _)) ==
    /\ Returned(1)
    /\ \E k \in 1..(Len(out[1].bins.t) - 1) :
          /\ WindowOf(1, k) # None
          /\ \/ GotInterval(out[1].bins.theta, TargetsOf(1, k).theta.neg,
                            IntervalsOf(1, k).theta_inter_neg, Q)
             \/ GotInterval(out[1].bins.theta, TargetsOf(1, k).theta.pos,
                            IntervalsOf(1, k).theta_inter_pos, Q)


\* a returned call whose target crosses pi/2 inside a bin that straddles pi/2
C25_Witness == SomeWindow(Straddles)

\* the point of the line at along-track distance rho from the recentered vertex
PointAtRho(self, rho) ==
    <<x0(self) + rho * self.sintheta * self.cosphi,
      y0(self) + rho * self.sintheta * self.sinphi,
      z0(self) + rho * self.costheta>>

\* C26: for a radius R >= 0, rho_of_r_neg(R) <= c * (tb - t0) <= rho_of_r_pos(R);
\* when R is below the distance of closest approach both are c * (tb - t0);
\* otherwise the points of the line at the two returned distances have
\* radius R.
C26_SphereRoots ==
    out[1].op = "rho_of_r" =>
        /\ out[1].neg <= RhoClosest(track) /\ RhoClosest(track) <= out[1].pos
        /\ IF out[1].R < ClosestSq(track)
           THEN out[1].neg = RhoClosest(track) /\ out[1].pos = RhoClosest(track)
           ELSE /\ cr(PointAtRho(track, out[1].neg)) = out[1].R
                /\ cr(PointAtRho(track, out[1].pos)) = out[1].R

\* a recentered track asked for a radius below its closest approach, and one
\* asked for a radius it crosses at two different points
C26_Witness ==
    /\ out[1].op = "rho_of_r"
    /\ last_origin # <<0, 0, 0, 0>>
    /\ out[1].R < ClosestSq(track)

\* the clipped window of the time bin caller p is about to process
NextWindow(p) == extent(track, binning.t[loc[p].k], binning.t[loc[p].k + 1])

AtTimeBin(p) == pc[p] = "loop" /\ loc[p].k <= Len(binning.t) - 1 /\ NextWindow(p) # None

StrictlyInside(t, w) == FLt(w[1], t) /\ FLt(t, w[2])

\* C27: whenever get_z_matrix reads r_inflection_point (tb strictly inside a
\* clipped time window) or theta_inflection_point (ts strictly inside a
\* clipped time window), for finite tb and ts, the value was assigned earlier
\* in the same call.
C27_InflectionBound ==
    \A p \in Procs :
        AtTimeBin(p) /\ IsFinite(loc[p].tb) /\ IsFinite(loc[p].ts) =>
            /\ StrictlyInside(loc[p].tb, NextWindow(p)) =>
                  loc[p].r_inflection_point = <<cr(point(track, loc[p].tb))>>
            /\ StrictlyInside(loc[p].ts, NextWindow(p)) =>
                  loc[p].theta_inflection_point = <<ctheta(point(track, loc[p].ts))>>

\* a call about to read both inflection values in one time window
C27_Witness ==
    /\ AtTimeBin(1)
    /\ IsFinite(loc[1].ts)
    /\ StrictlyInside(loc[1].tb, NextWindow(1))
    /\ StrictlyInside(loc[1].ts, NextWindow(1))

\* the times caller p has passed to point since its call began (lines 307,
\* 313) and passes to it in the time bin it is about to process (line 329)
TimesPassedToPoint(p) ==
    (IF pc[p] \in {"ts", "zeros", "loop"} /\ loc[p].r_inflection_point # Unbound
     THEN {loc[p].tb} ELSE {})
    \cup (IF pc[p] \in {"zeros", "loop"} /\ loc[p].theta_inflection_point # Unbound
          THEN {loc[p].ts} ELSE {})
    \cup (IF AtTimeBin(p) THEN {NextWindow(p)[1], NextWindow(p)[2]} ELSE {})

\* C28: every time passed to point during a get_z_matrix call whose origin is
\* not changed meanwhile (tb, ts and both ends of every clipped time window)
\* lies in [t0, t0 + dt]: the assertion of point holds.
C28_PointNeverFailsInside ==
    \A t \in TimesPassedToPoint(1) : point_ok(track, t)

\* a call on a recentered track that has passed tb and ts to point and is
\* about to pass the ends of a window clipped at the end of the track
C28_Witness ==
    /\ AtTimeBin(1)
    /\ last_origin # <<0, 0, 0, 0>>
    /\ loc[1].r_inflection_point # Unbound
    /\ loc[1].theta_inflection_point # Unbound
    /\ NextWindow(1)[2] = t0(track) + track.dt
    /\ NextWindow(1)[2] < binning.t[loc[1].k + 1]

\* the radius branch that does not carry the window of the time bin caller p
\* is about to process (tb is not strictly inside the window): its flag pos,
\* its target and the intervals correlate_r produces for it
InactiveIsPos(p) == loc[p].tb <= NextWindow(p)[1]

InactiveTarget(p) ==
    LET re == track_r_extents(track, loc[p], NextWindow(p))
    IN  IF InactiveIsPos(p) THEN re.pos ELSE re.neg

InactiveIntervals(p) == correlate_r(track, binning.r, InactiveTarget(p), InactiveIsPos(p))

\* the time bin is one whose correlators run: no name is read unbound
HasInactiveBranch(p) ==
    /\ AtTimeBin(p)
    /\ ~StrictlyInside(loc[p].tb, NextWindow(p))
    /\ ~reads_unbound(track, loc[p], NextWindow(p))

\* C29: when tb is not strictly inside a time window, the radius branch that
\* does not carry the window gets the target [0, 0]; correlate_r produces an
\* interval for it only in a bin whose lower edge is <= 0, every such interval
\* has zero width, and the branch adds 0 to every cell in every combination
\* with a polar-angle interval and an azimuth interval.
C29_InactiveRadiusBranch ==
    HasInactiveBranch(1) =>
        LET iv == intervals(track, binning, loc[1], NextWindow(1))
            ri == InactiveIntervals(1)
        IN  /\ InactiveTarget(1) = <<0, 0>>
            /\ ri = IF InactiveIsPos(1) THEN iv.r_inter_pos ELSE iv.r_inter_neg
            /\ \A j \in DOMAIN ri :
                  ri[j] # None => binning.r[j] <= 0 /\ ri[j][1] = ri[j][2]
            /\ \A j \in DOMAIN ri : \A i \in DOMAIN iv.phi_inter :
                  /\ \A m \in DOMAIN iv.theta_inter_neg :
                        overlap(ri[j], iv.theta_inter_neg[m], iv.phi_inter[i]) = 0
                  /\ \A m \in DOMAIN iv.theta_inter_pos :
                        overlap(ri[j], iv.theta_inter_pos[m], iv.phi_inter[i]) = 0

\* the inactive branch has a zero-width interval that lies inside a
\* polar-angle interval and an azimuth interval: a length of 0 is added
C29_Witness ==
    /\ HasInactiveBranch(1)
    /\ LET iv == intervals(track, binning, loc[1], NextWindow(1))
           ri == InactiveIntervals(1)
       IN  \E j \in DOMAIN ri : \E i \in DOMAIN iv.phi_inter :
             \E m \in DOMAIN iv.theta_inter_neg :
               /\ ri[j] # None /\ iv.theta_inter_neg[m] # None /\ iv.phi_inter[i] # None
               /\ FLe(PyMax3(ri[j][1], iv.theta_inter_neg[m][1], iv.phi_inter[i][1]),
                      PyMin3(ri[j][2], iv.theta_inter_neg[m][2], iv.phi_inter[i][2]))

\* an evaluator generated with use_directionality = False has been called
Undirected == pexp.call # None /\ ~pexp.f.use_directionality

\* C30: an evaluator generated with use_directionality = False, uncompressed
\* or template-compressed, takes the isotropic branch for every source inside
\* the radial range, never the line-emitter or Gaussian-emitter error branch,
\* never reads a direction-bin index that was not computed for the source,
\* raises nothing and returns.
C30_IsotropicWithoutDirectionality ==
    Undirected =>
        /\ \A i \in DOMAIN pexp.call.lv.branches : pexp.call.lv.branches[i] = "isotropic"
        /\ pexp.call.lv.emitter_error = "none"
        /\ pexp.call.lv.uncomputed_reads = {}
        /\ pexp.call.lv.status \in {"running", "returned"}

====
